---- MODULE Spec2Model ----
(***************************************************************************)
(* A model of ts-avif: the AV1 OBU framing layer (av1/obu.ts), the         *)
(* sequence-header reader (av1/decoder.ts), the ISOBMFF/HEIF container     *)
(* reader (container/heif.ts) and the container builder (encoder.ts).      *)
(*                                                                         *)
(* Every operation of the library is a synchronous function of its         *)
(* arguments.  A specification below draws the arguments of one family of  *)
(* operations in its initial states and each action applies one operation, *)
(* computed as the source computes it, to them.                            *)
(*                                                                         *)
(* Conventions.  A Uint8Array is a sequence of numbers in 0..255; the      *)
(* source's index i is the sequence's index i + 1.  A string is the        *)
(* sequence of its character codes.  A JavaScript number is an integer;    *)
(* the 32-bit operators (&, |, <<, >>) are computed on the two's           *)
(* complement value as ECMAScript's ToInt32 defines them.  A call that     *)
(* throws, returns null or never returns yields a record whose kind field  *)
(* says so.                                                                *)
(***************************************************************************)
EXTENDS Integers, Sequences, FiniteSets, TLC

VARIABLES pc, input, output
vars == <<pc, input, output>>

NoValue == <<>>

-----------------------------------------------------------------------------
(* Numbers, bytes and typed arrays.                                        *)

Min(a, b) == IF a < b THEN a ELSE b
Max(a, b) == IF a > b THEN a ELSE b

(* An unsigned 32-bit number given by its two 16-bit halves.               *)
U32(hi, lo) == [hi |-> hi, lo |-> lo]

(* ToInt32 of the unsigned 32-bit number with halves hi and lo.            *)
ToInt32(u) == (IF u.hi >= 32768 THEN u.hi - 65536 ELSE u.hi) * 65536 + u.lo

(* The 16-bit halves of the two's complement pattern of an int32.          *)
Hi16(a) == (a \div 65536) % 65536
Lo16(a) == a % 65536

(* Bit i of a | b, in its place.                                           *)
OrAt(a, b, i) ==
    IF (a \div 2 ^ i) % 2 = 1 \/ (b \div 2 ^ i) % 2 = 1 THEN 2 ^ i ELSE 0

(* a | b on 16-bit halves.                                                 *)
BitOr(a, b) ==
    ((OrAt(a, b, 0) + OrAt(a, b, 1) + OrAt(a, b, 2) + OrAt(a, b, 3))
     + (OrAt(a, b, 4) + OrAt(a, b, 5) + OrAt(a, b, 6) + OrAt(a, b, 7)))
    + ((OrAt(a, b, 8) + OrAt(a, b, 9) + OrAt(a, b, 10) + OrAt(a, b, 11))
       + (OrAt(a, b, 12) + OrAt(a, b, 13) + OrAt(a, b, 14) + OrAt(a, b, 15)))

(* a | b on int32 operands.                                                *)
Or32(a, b) == ToInt32(U32(BitOr(Hi16(a), Hi16(b)), BitOr(Lo16(a), Lo16(b))))

(* a << 1 on an int32 operand: the bit shifted out of bit 31 is lost.      *)
Dbl32(a) ==
    IF a >= 2 ^ 30 THEN 2 * ((a - 2 ^ 30) - 2 ^ 30)
    ELSE IF a < -(2 ^ 30) THEN 2 * ((a + 2 ^ 30) + 2 ^ 30)
    ELSE 2 * a

(* a << n on an int32 operand: the shift count is taken modulo 32, the     *)
(* bits shifted out of bit 31 are lost, and bit 31 of the result is the    *)
(* sign.                                                                   *)
Shl32(a, n) ==
    LET k == n % 32
        rest == IF k = 31 THEN 0 ELSE (a % 2 ^ (31 - k)) * 2 ^ k
    IN IF k = 0 THEN a
       ELSE IF (a \div 2 ^ (31 - k)) % 2 = 1 THEN (rest - 2 ^ 30) - 2 ^ 30
       ELSE rest

(* a >> n on an int32 operand, n < 31: the arithmetic shift.               *)
Sar32(a, n) == a \div (2 ^ n)

(* data[i] where the source uses the value in a bitwise expression or in   *)
(* String.fromCharCode: a read outside the array gives undefined, which    *)
(* both contexts convert to 0.                                             *)
ByteAt(data, i) == IF i >= 0 /\ i < Len(data) THEN data[i + 1] ELSE 0

(* Uint8Array.prototype.slice(start, end): a negative index counts from    *)
(* the end, and both are clamped to the array.                             *)
RelIndex(i, len) == IF i < 0 THEN Max(len + i, 0) ELSE Min(i, len)
Slice(data, start, end) ==
    LET from == RelIndex(start, Len(data))
        to == RelIndex(end, Len(data))
    IN IF to <= from THEN <<>> ELSE SubSeq(data, from + 1, to)

RECURSIVE Concat(_)
Concat(parts) == IF parts = <<>> THEN <<>> ELSE Head(parts) \o Concat(Tail(parts))

-----------------------------------------------------------------------------
(* av1/obu.ts: LEB128.                                                     *)

(* The do-while loop of writeLeb128 from the state (value, bytes).  value  *)
(* is an int32 from the first `value >>= 7` on.  The loop ends when the    *)
(* shifted value is 0.  A negative value shifts to -1 and -1 >> 7 is -1:   *)
(* from there every iteration pushes 0xFF and finds value !== 0 again, so  *)
(* the call never returns.                                                 *)
RECURSIVE WriteLebLoop(_, _)
WriteLebLoop(value, bytes) ==
    LET low == value % 128
        next == Sar32(value, 7)
        byte == IF next # 0 THEN low + 128 ELSE low
        out == Append(bytes, byte)
    IN IF next = 0 THEN [kind |-> "ok", bytes |-> out]
       ELSE IF next = value THEN [kind |-> "diverges", bytes |-> out]
       ELSE WriteLebLoop(next, out)

(* writeLeb128(value) for an integer 0 <= value < 2^32 given as a U32:     *)
(* `value & 0x7F` and `value >>= 7` both start from ToInt32(value).        *)
writeLeb128(value) == WriteLebLoop(ToInt32(value), <<>>)

(* The do-while loop of readLeb128 from the state (value, bytes).          *)
ReadLebLoop(data, offset, value, bytes) ==
    LET loop[s \in [value : Int, bytes : Nat]] ==
            IF offset + s.bytes >= Len(data)
            THEN [kind |-> "throws", error |-> "Unexpected end of data while reading LEB128"]
            ELSE LET byte == ByteAt(data, offset + s.bytes)
                     value2 == Or32(s.value, Shl32(byte % 128, s.bytes * 7))
                     bytes2 == s.bytes + 1
                 IN IF bytes2 > 8
                    THEN [kind |-> "throws", error |-> "LEB128 value too large"]
                    ELSE IF byte >= 128
                    THEN loop[[value |-> value2, bytes |-> bytes2]]
                    ELSE [kind |-> "ok", value |-> value2, bytes |-> bytes2]
    IN loop[[value |-> value, bytes |-> bytes]]

readLeb128(data, offset) == ReadLebLoop(data, offset, 0, 0)

(* A length or a size the source hands to writeLeb128, as a U32.           *)
AsU32(n) == U32(n \div 65536, n % 65536)

(* Whether the int32 the source computed equals the unsigned number u.     *)
EqualsU32(a, u) == u.hi < 32768 /\ a = ToInt32(u)

-----------------------------------------------------------------------------
(* LEB128 calls: writeLeb128(value), then readLeb128 on what it returned.  *)

(* The halves the 32-bit arguments are built from: the ends of the range   *)
(* and both sides of every 7-bit group boundary and of the sign bit.       *)
LebHalves == {0, 1, 31, 32, 127, 128, 4095, 4096, 16383, 16384, 32767, 32768, 65535}
LebValues == {U32(hi, lo) : hi \in LebHalves, lo \in LebHalves}

LebInit ==
    /\ pc = "ready"
    /\ input \in [value : LebValues]
    /\ output = NoValue

WriteLeb128 ==
    /\ pc = "ready"
    /\ pc' = "written"
    /\ output' = writeLeb128(input.value)
    /\ UNCHANGED input

ReadLeb128 ==
    /\ pc = "written"
    /\ output.kind = "ok"
    /\ pc' = "read"
    /\ output' = [kind |-> "ok", bytes |-> output.bytes,
                  read |-> readLeb128(output.bytes, 0)]
    /\ UNCHANGED input

LebNext == WriteLeb128 \/ ReadLeb128

LebSpec == LebInit /\ [][LebNext]_vars

(* C1: for every integer v in [0, 2^32), writeLeb128(v) returns, and       *)
(* readLeb128 on the bytes it returned, at offset 0, gives value v and a   *)
(* byte count equal to the number of bytes emitted.                        *)
C1_LebRoundTrip ==
    /\ pc = "written" => output.kind = "ok"
    /\ pc = "read" =>
          /\ output.read.kind = "ok"
          /\ EqualsU32(output.read.value, input.value)
          /\ output.read.bytes = Len(output.bytes)

-----------------------------------------------------------------------------
(* av1/obu.ts: OBU framing.                                                *)

(* createOBU(type, payload, {hasExtension, temporalId, spatialId}).  The   *)
(* header byte and the extension byte are stored into a Uint8Array, which  *)
(* keeps the low 8 bits.                                                   *)
createOBU(type, payload, hasExtension, temporalId, spatialId) ==
    LET header0 == Or32(Shl32(type, 3), 2)
        header == IF hasExtension THEN Or32(header0, 4) ELSE header0
        sizeBytes == writeLeb128(AsU32(Len(payload))).bytes
        extension == Or32(Shl32(temporalId % 8, 5), Shl32(spatialId % 4, 3))
    IN <<header % 256>>
       \o (IF hasExtension THEN <<extension % 256>> ELSE <<>>)
       \o sizeBytes
       \o payload

(* The header bytes before the size field, with the extension byte not     *)
(* counted.                                                                *)
ObuHeaderSize_NoExtension(hasExtension) == 1

(* let headerSize = 1; if (hasExtension) headerSize++                      *)
ObuHeaderSize(hasExtension) == IF hasExtension THEN 2 ELSE 1

(* The forbidden bit taken as never set.                                   *)
ForbiddenBit_Ignored(header) == FALSE

(* (header & 0x80) !== 0                                                   *)
ForbiddenBit(header) == header >= 128

(* parseOBU(data, offset).                                                 *)
parseOBU(data, offset) ==
    IF offset >= Len(data) THEN [kind |-> "null"]
    ELSE LET header == ByteAt(data, offset)
             type == (header \div 8) % 16
             hasExtension == (header \div 4) % 2 = 1
             hasSizeField == (header \div 2) % 2 = 1
             headerSize1 == ObuHeaderSize(hasExtension)
             leb == readLeb128(data, offset + headerSize1)
             payloadSize == IF hasSizeField THEN leb.value
                            ELSE Len(data) - offset - headerSize1
             headerSize == IF hasSizeField THEN headerSize1 + leb.bytes
                           ELSE headerSize1
             totalSize == headerSize + payloadSize
         IN IF ForbiddenBit(header)
            THEN [kind |-> "throws", error |-> "Invalid OBU: forbidden bit is set"]
            ELSE IF hasSizeField /\ leb.kind = "throws" THEN leb
            ELSE [kind |-> "ok", type |-> type, size |-> totalSize,
                  data |-> Slice(data, offset + headerSize, offset + totalSize)]

(* parseOBUs(data): the loop from `offset`, with the OBUs pushed so far.   *)
(* An OBU of size 0 leaves offset where it was and an OBU of negative size *)
(* moves it backwards.  `visited` holds the offsets the loop has been at:  *)
(* the loop body is a function of offset alone, so from a second visit of  *)
(* an offset on the loop repeats for ever.                                 *)
RECURSIVE ParseOBUsLoop(_, _, _, _)
ParseOBUsLoop(data, offset, obus, visited) ==
    IF ~(offset < Len(data)) THEN [kind |-> "ok", obus |-> obus]
    ELSE IF offset \in visited THEN [kind |-> "diverges", obus |-> obus]
    ELSE LET obu == parseOBU(data, offset)
         IN IF obu.kind = "throws" THEN obu
            ELSE IF obu.kind = "null" THEN [kind |-> "ok", obus |-> obus]
            ELSE ParseOBUsLoop(data, offset + obu.size, Append(obus, obu),
                               visited \cup {offset})

parseOBUs(data) == ParseOBUsLoop(data, 0, <<>>, {})

-----------------------------------------------------------------------------
(* OBU calls: createOBU(type, payload, options), then parseOBU on the      *)
(* buffer it returned, at offset 0.                                        *)

(* The longest payload drawn.  The payload lengths are the shortest ones   *)
(* and those around it, so that the size field takes one byte and two.     *)
MaxPayload == 130
PayloadLengths == {0, 1, 2} \cup (MaxPayload - 3 .. MaxPayload)

(* A payload of n bytes, no two neighbours alike.                          *)
Payload(n, first) == [i \in 1 .. n |-> (first + 37 * (i - 1)) % 256]

ObuArgs ==
    [type : 0 .. 15,
     payload : {Payload(n, first) : n \in PayloadLengths, first \in {0, 200}},
     hasExtension : BOOLEAN,
     temporalId : {0, 5, 7},
     spatialId : {0, 3}]

ObuInit ==
    /\ pc = "ready"
    /\ input \in ObuArgs
    /\ output = NoValue

CreateOBU ==
    /\ pc = "ready"
    /\ pc' = "created"
    /\ output' = [buffer |-> createOBU(input.type, input.payload, input.hasExtension,
                                       input.temporalId, input.spatialId)]
    /\ UNCHANGED input

ParseOBU ==
    /\ pc = "created"
    /\ pc' = "parsed"
    /\ output' = [buffer |-> output.buffer, obu |-> parseOBU(output.buffer, 0)]
    /\ UNCHANGED input

ObuNext == CreateOBU \/ ParseOBU

ObuSpec == ObuInit /\ [][ObuNext]_vars

(* C2: for every OBU type in 0..15, every payload and every choice of      *)
(* hasExtension, temporalId and spatialId, parseOBU(createOBU(type,        *)
(* payload, options), 0) returns an OBU whose type is type and whose data  *)
(* is payload, byte for byte.                                              *)
C2_ObuRoundTrip ==
    pc = "parsed" =>
        /\ output.obu.kind = "ok"
        /\ output.obu.type = input.type
        /\ output.obu.data = input.payload

(* An OBU with an extension byte and a two-byte size field was created and *)
(* parsed back.                                                            *)
C2_Witness ==
    /\ pc = "parsed"
    /\ input.hasExtension
    /\ input.temporalId = 7
    /\ Len(input.payload) >= 128
    /\ Len(output.buffer) = Len(input.payload) + 4
    /\ output.obu.kind = "ok"

-----------------------------------------------------------------------------
(* OBU stream calls: parseOBU at an offset of a buffer and parseOBUs on    *)
(* the buffer, for buffers of up to MaxChunks chunks: OBUs as createOBU    *)
(* writes them, the same with the forbidden bit set, OBUs without a size   *)
(* field, and OBUs with a size field that createOBU never writes.          *)

MaxChunks == 3

(* Size fields createOBU never writes: -6 and -100 as the 32-bit OR makes  *)
(* them, more than the buffer holds, a group shifted by 35, nine bytes, a  *)
(* field cut by the end of the buffer, and 1 in two bytes.                 *)
OddSizeFields ==
    {<<250, 255, 255, 255, 15>>, <<156, 255, 255, 255, 15>>, <<100>>,
     <<128, 128, 128, 128, 128, 1>>,
     <<128, 128, 128, 128, 128, 128, 128, 128, 0>>, <<255>>, <<129, 0>>}

ObuChunks ==
    {[kind |-> "plain", bytes |-> createOBU(type, Payload(n, 7), FALSE, 0, 0)] :
        type \in {1, 6}, n \in {0, 2}}
    \cup {[kind |-> "plain", bytes |-> createOBU(6, Payload(2, 7), TRUE, 5, 3)]}
    \cup {[kind |-> "forbidden",
           bytes |-> <<128 + 8 * type + 2, n>> \o Payload(n, 7)] : type \in {1}, n \in {0, 2}}
    \cup {[kind |-> "sizeless", bytes |-> <<8 * 6 + (IF ext THEN 4 ELSE 0)>> \o Payload(n, 7)] :
              ext \in BOOLEAN, n \in {2}}
    \cup {[kind |-> "odd", bytes |-> <<8 * 6 + 2>> \o field \o Payload(2, 7)] :
              field \in OddSizeFields}

RECURSIVE ChunkLists(_)
ChunkLists(n) ==
    IF n = 0 THEN {<<>>}
    ELSE ChunkLists(n - 1)
         \cup {Append(l, c) : l \in {k \in ChunkLists(n - 1) : Len(k) = n - 1},
                              c \in ObuChunks}

ChunkBytes(chunks) == Concat([i \in 1 .. Len(chunks) |-> chunks[i].bytes])

(* Where chunk k starts in the buffer.                                     *)
ChunkStart(chunks, k) == Len(ChunkBytes(SubSeq(chunks, 1, k - 1)))

ObusInit ==
    /\ pc = "ready"
    /\ \E chunks \in ChunkLists(MaxChunks) :
           input = [chunks |-> chunks, data |-> ChunkBytes(chunks)]
    /\ output = NoValue

(* parseOBU(data, offset) at the start of a chunk or at the end of the     *)
(* buffer.                                                                 *)
ParseOBUAt ==
    /\ pc = "ready"
    /\ pc' = "parsedAt"
    /\ \E k \in 1 .. Len(input.chunks) + 1 :
           output' = [offset |-> ChunkStart(input.chunks, k),
                      obu |-> parseOBU(input.data, ChunkStart(input.chunks, k))]
    /\ UNCHANGED input

ParseOBUs ==
    /\ pc = "ready"
    /\ pc' = "parsedAll"
    /\ output' = parseOBUs(input.data)
    /\ UNCHANGED input

ObusNext == ParseOBUAt \/ ParseOBUs

ObusSpec == ObusInit /\ [][ObusNext]_vars

InvalidOBU == [kind |-> "throws", error |-> "Invalid OBU: forbidden bit is set"]

(* The first chunk with the forbidden bit, when every chunk before it is   *)
(* as createOBU writes it; 0 if there is none.                             *)
FirstForbidden(chunks) ==
    IF \E k \in 1 .. Len(chunks) :
           chunks[k].kind = "forbidden" /\ \A i \in 1 .. k - 1 : chunks[i].kind = "plain"
    THEN CHOOSE k \in 1 .. Len(chunks) :
             chunks[k].kind = "forbidden" /\ \A i \in 1 .. k - 1 : chunks[i].kind = "plain"
    ELSE 0

(* C13: parseOBU fails with the invalid OBU error whenever the top bit of  *)
(* the header byte at the offset is set, and parseOBUs over a buffer in    *)
(* which an OBU boundary carries the forbidden bit fails as a whole: its   *)
(* result is the error, with no list of the OBUs before.                   *)
C13_ForbiddenBitFails ==
    /\ (pc = "parsedAt" /\ output.offset < Len(input.data)
            /\ input.data[output.offset + 1] >= 128) => output.obu = InvalidOBU
    /\ (pc = "parsedAll" /\ FirstForbidden(input.chunks) # 0) => output = InvalidOBU

(* parseOBUs met the forbidden bit at the third OBU of a buffer and failed. *)
C13_Witness ==
    /\ pc = "parsedAll"
    /\ FirstForbidden(input.chunks) = 3
    /\ output = InvalidOBU

(* C19: parseOBUs terminates on every finite buffer and returns the OBUs   *)
(* in buffer order, each of size >= 1, also when the size field decodes to *)
(* a value outside [0, remaining bytes].                                   *)
C19_ParseOBUsTerminates ==
    pc = "parsedAll" =>
        /\ output.kind # "diverges"
        /\ output.kind = "ok" => \A i \in 1 .. Len(output.obus) : output.obus[i].size >= 1

-----------------------------------------------------------------------------
(* LEB128 reads: readLeb128(data, offset) on an encoding of up to          *)
(* MaxGroups seven-bit groups, closed by a byte with a clear continuation  *)
(* bit or cut by the end of the buffer.                                    *)

MaxGroups == 10

RECURSIVE GroupLists(_)
GroupLists(n) ==
    IF n = 0 THEN {<<>>}
    ELSE GroupLists(n - 1)
         \cup {Append(l, g) : l \in {k \in GroupLists(n - 1) : Len(k) = n - 1}, g \in {0, 127}}

(* The encodings: every group but the last is 0 or 127.                    *)
Varints ==
    {[groups |-> Append(l, last), closed |-> closed, lead |-> lead] :
        l \in GroupLists(MaxGroups - 1), last \in {0, 1, 8, 127},
        closed \in BOOLEAN, lead \in {0, 2}}

(* The buffer of v: lead bytes, the groups with their continuation bits,   *)
(* and one byte more after a closed encoding.                              *)
VarintBuffer(v) ==
    Payload(v.lead, 200)
    \o [i \in 1 .. Len(v.groups) |->
            v.groups[i] + (IF i < Len(v.groups) \/ ~v.closed THEN 128 ELSE 0)]
    \o (IF v.closed THEN <<9>> ELSE <<>>)

VarintInit ==
    /\ pc = "ready"
    /\ \E v \in Varints : input = [varint |-> v, data |-> VarintBuffer(v)]
    /\ output = NoValue

ReadVarint ==
    /\ pc = "ready"
    /\ pc' = "decoded"
    /\ output' = readLeb128(input.data, input.varint.lead)
    /\ UNCHANGED input

VarintNext == ReadVarint

VarintSpec == VarintInit /\ [][VarintNext]_vars

VarintOverflow == [kind |-> "throws", error |-> "LEB128 value too large"]

(* Whether value is the number whose seven-bit groups, low-order group     *)
(* first, are groups.  value is an int32: a number with a group above bit  *)
(* 30 is none.                                                             *)
LowOrderFirst(value, groups) ==
    /\ value >= 0
    /\ \A i \in 1 .. Len(groups) :
          groups[i] = (IF i <= 5 THEN (value \div 128 ^ (i - 1)) % 128 ELSE 0)

(* C14: readLeb128 fails with the value too large error exactly when more  *)
(* than 8 seven-bit groups are consumed before a byte with a clear         *)
(* continuation bit is met; every encoding of at most 8 bytes that lies    *)
(* inside the buffer is accepted and decoded low-order group first.        *)
C14_VarintOverflowAndDecode ==
    pc = "decoded" =>
        /\ (output = VarintOverflow) <=> (Len(input.varint.groups) > 8)
        /\ (input.varint.closed /\ Len(input.varint.groups) <= 8) =>
              /\ output.kind = "ok"
              /\ output.bytes = Len(input.varint.groups)
              /\ LowOrderFirst(output.value, input.varint.groups)

-----------------------------------------------------------------------------
(* av1/decoder.ts: BitReader.  A reader is its cursor [pos, bitPos] over   *)
(* the data it was constructed with.                                       *)

NewBitReader == [pos |-> 0, bitPos |-> 0]

(* BitReader.readBit(): the bit and the reader after the call.             *)
readBit(data, r) ==
    IF r.pos >= Len(data) THEN [value |-> 0, reader |-> r]
    ELSE [value |-> (data[r.pos + 1] \div 2 ^ (7 - r.bitPos)) % 2,
          reader |-> IF r.bitPos + 1 = 8
                     THEN [pos |-> r.pos + 1, bitPos |-> 0]
                     ELSE [pos |-> r.pos, bitPos |-> r.bitPos + 1]]

(* A run of iterations of the for loop of readBits: how many, and the      *)
(* value and the reader they start with.                                   *)
ReadBitsRuns == [count : Int, value : Int, reader : [pos : Nat, bitPos : 0 .. 7]]

(* BitReader.readBits(count).  One iteration is `(value << 1) | bit`: bit  *)
(* 0 of value << 1 is clear, so the | adds the bit.  A longer run is its   *)
(* first half and then the rest, in the order of the loop; the halves keep *)
(* the evaluation of a 32-bit read shallow.                                *)
readBits(data, r, count) ==
    LET loop[s \in ReadBitsRuns] ==
            IF s.count <= 0 THEN [value |-> s.value, reader |-> s.reader]
            ELSE IF s.count = 1
            THEN LET b == readBit(data, s.reader)
                 IN [value |-> Dbl32(s.value) + b.value, reader |-> b.reader]
            ELSE LET first == loop[[s EXCEPT !.count = s.count \div 2]]
                 IN loop[[count |-> s.count - s.count \div 2,
                          value |-> first.value, reader |-> first.reader]]
    IN loop[[count |-> count, value |-> 0, reader |-> r]]

(* The reader after a read whose value the source drops.                   *)
SkipBits(data, r, count) == readBits(data, r, count).reader

(* readUvlc(reader): the while loop with leadingZeros zeros read so far.   *)
(* The value is `value + (1 << leadingZeros) - 1`, 0xFFFFFFFF after 32     *)
(* zeros; its only caller drops it, so only the reader is kept.            *)
RECURSIVE ReadUvlcLoop(_, _, _)
ReadUvlcLoop(data, r, leadingZeros) ==
    LET b == readBit(data, r)
    IN IF b.value = 0
       THEN IF leadingZeros + 1 >= 32 THEN b.reader
            ELSE ReadUvlcLoop(data, b.reader, leadingZeros + 1)
       ELSE SkipBits(data, b.reader, leadingZeros)

readUvlc(data, r) == ReadUvlcLoop(data, r, 0)

-----------------------------------------------------------------------------
(* Bit reader calls: a BitReader constructed over a byte slice, then up to *)
(* MaxReads calls of readBit and readBits(count).  The result keeps the    *)
(* reader, the reader before the last call, and what the last call         *)
(* returned.                                                               *)

MaxReads == 3

MaxSlice == 5

RECURSIVE ByteSlices(_)
ByteSlices(n) ==
    IF n = 0 THEN {<<>>}
    ELSE ByteSlices(n - 1)
         \cup {Append(l, b) : l \in {k \in ByteSlices(n - 1) : Len(k) = n - 1},
                              b \in {0, 165, 255}}

BitCounts == {0, 3, 8, 32}

BitInit ==
    /\ pc = "constructed"
    /\ input \in [data : ByteSlices(MaxSlice)]
    /\ output = [reader |-> NewBitReader, before |-> NewBitReader,
                 calls |-> 0, count |-> 0, value |-> 0]

ReadBit ==
    /\ pc \in {"constructed", "reading"}
    /\ output.calls < MaxReads
    /\ pc' = "reading"
    /\ LET b == readBit(input.data, output.reader)
       IN output' = [reader |-> b.reader, before |-> output.reader,
                     calls |-> output.calls + 1, count |-> 1, value |-> b.value]
    /\ UNCHANGED input

ReadBits ==
    /\ pc \in {"constructed", "reading"}
    /\ output.calls < MaxReads
    /\ pc' = "reading"
    /\ \E count \in BitCounts :
           LET b == readBits(input.data, output.reader, count)
           IN output' = [reader |-> b.reader, before |-> output.reader,
                         calls |-> output.calls + 1, count |-> count, value |-> b.value]
    /\ UNCHANGED input

BitNext == ReadBit \/ ReadBits

BitSpec == BitInit /\ [][BitNext]_vars

(* The bits of the slice, most significant first within each byte, and 0   *)
(* past its end.                                                           *)
BitAt(data, k) ==
    IF k \div 8 < Len(data) THEN (data[k \div 8 + 1] \div 2 ^ (7 - (k % 8))) % 2 ELSE 0

(* The number that the n <= 16 bits from bit k on spell, first bit highest. *)
BitsValue(data, k, n) ==
    LET spelt[i \in 0 .. 16] ==
            IF i = 0 THEN 0 ELSE 2 * spelt[i - 1] + BitAt(data, k + i - 1)
    IN spelt[n]

(* The unsigned number that the n <= 32 bits from the cursor r on spell.   *)
BitsFrom(data, r, n) ==
    LET k == 8 * r.pos + r.bitPos
    IN IF n > 16 THEN U32(BitsValue(data, k, n - 16), BitsValue(data, k + n - 16, 16))
       ELSE U32(0, BitsValue(data, k, n))

(* C21: for every byte slice and every sequence of readBit and readBits(n) *)
(* calls with 0 <= n <= 32, the cursor never moves backwards, bits are     *)
(* delivered most significant first within each byte, reads past the end   *)
(* return 0 bits, and readBits(n) returns an unsigned value in [0, 2^n),   *)
(* also for n = 32.                                                        *)
C21_BitReaderContract ==
    pc = "reading" =>
        /\ 8 * output.reader.pos + output.reader.bitPos
              >= 8 * output.before.pos + output.before.bitPos
        /\ output.value >= 0
        /\ output.count < 31 => output.value < 2 ^ output.count
        /\ EqualsU32(output.value, BitsFrom(input.data, output.before, output.count))

-----------------------------------------------------------------------------
(* av1/decoder.ts: parseSequenceHeader.                                    *)

(* The width of a frame size field, its 4-bit field taken as it is.        *)
FrameSizeBits_NoPlusOne(bitsMinus1) == bitsMinus1

(* reader.readBits(4) + 1                                                  *)
FrameSizeBits(bitsMinus1) == bitsMinus1 + 1

(* frame_width_bits_minus_1, frame_height_bits_minus_1 and the two size    *)
(* fields: [width, height, reader].                                        *)
ReadFrameSize(data, r) ==
    LET wb == readBits(data, r, 4)
        hb == readBits(data, wb.reader, 4)
        w == readBits(data, hb.reader, FrameSizeBits(wb.value))
        h == readBits(data, w.reader, FrameSizeBits(hb.value))
    IN [width |-> w.value + 1, height |-> h.value + 1, reader |-> h.reader]

(* The timing info block of the full header.                               *)
SkipTimingInfo(data, r) ==
    LET present == readBit(data, r)
        ticks == SkipBits(data, SkipBits(data, present.reader, 32), 32)
        equalPictureInterval == readBit(data, ticks)
    IN IF present.value = 0 THEN present.reader
       ELSE IF equalPictureInterval.value = 0 THEN equalPictureInterval.reader
       ELSE readUvlc(data, equalPictureInterval.reader)

(* The decoder model info block: [present, reader].                        *)
SkipDecoderModelInfo(data, r) ==
    LET present == readBit(data, r)
        r1 == SkipBits(data, present.reader, 5)
        r2 == SkipBits(data, r1, 32)
        r3 == SkipBits(data, r2, 5)
        r4 == SkipBits(data, r3, 5)
    IN [present |-> present.value = 1,
        reader |-> IF present.value = 1 THEN r4 ELSE present.reader]

(* One operating point.                                                    *)
SkipOperatingPoint(data, r, decoderModelInfoPresent, initialDisplayDelayPresent) ==
    LET r1 == SkipBits(data, r, 12)
        seqLevelIdx == readBits(data, r1, 5)
        r2 == IF seqLevelIdx.value > 7 THEN SkipBits(data, seqLevelIdx.reader, 1)
              ELSE seqLevelIdx.reader
        modelForOp == readBit(data, r2)
        r3 == IF ~decoderModelInfoPresent THEN r2
              ELSE IF modelForOp.value = 0 THEN modelForOp.reader
              ELSE SkipBits(data, SkipBits(data, SkipBits(data, modelForOp.reader, 5), 5), 1)
        delayForOp == readBit(data, r3)
    IN IF ~initialDisplayDelayPresent THEN r3
       ELSE IF delayForOp.value = 0 THEN delayForOp.reader
       ELSE SkipBits(data, delayForOp.reader, 4)

(* The iterations i .. last of the operating points loop: one point, or    *)
(* the first half of the points and then the rest, in the order of the     *)
(* loop.                                                                   *)
SkipOperatingPoints(data, r, cntMinus1, modelPresent, delayPresent) ==
    LET loop[s \in [i : Nat, last : Nat, reader : [pos : Nat, bitPos : 0 .. 7]]] ==
            IF s.i > s.last THEN s.reader
            ELSE IF s.i = s.last
            THEN SkipOperatingPoint(data, s.reader, modelPresent, delayPresent)
            ELSE LET mid == (s.i + s.last) \div 2
                 IN loop[[i |-> mid + 1, last |-> s.last,
                          reader |-> loop[[s EXCEPT !.last = mid]]]]
    IN loop[[i |-> 0, last |-> cntMinus1, reader |-> r]]

(* The full header up to the frame size: the reader at the frame size.     *)
SkipFullHeader(data, r) ==
    LET model == SkipDecoderModelInfo(data, SkipTimingInfo(data, r))
        delayPresent == readBit(data, model.reader)
        cntMinus1 == readBits(data, delayPresent.reader, 5)
    IN SkipOperatingPoints(data, cntMinus1.reader, cntMinus1.value,
                           model.present, delayPresent.value = 1)

(* The bit depth: highBitdepth and twelveBit are never read and stay       *)
(* false.                                                                  *)
SequenceBitDepth(seqProfile, highBitdepth, twelveBit) ==
    IF seqProfile = 2 /\ highBitdepth THEN (IF twelveBit THEN 12 ELSE 10)
    ELSE IF seqProfile >= 2 THEN 10
    ELSE IF highBitdepth THEN 10 ELSE 8

(* parseSequenceHeader(data).  The reads after the frame size (frame id    *)
(* numbers, superblock and filter flags) change nothing but the reader,    *)
(* which is dropped on return.                                             *)
parseSequenceHeader(data) ==
    LET seqProfile == readBits(data, NewBitReader, 3)
        stillPicture == readBit(data, seqProfile.reader)
        reduced == readBit(data, stillPicture.reader)
        size == IF reduced.value = 1
                THEN ReadFrameSize(data, SkipBits(data, reduced.reader, 5))
                ELSE ReadFrameSize(data, SkipFullHeader(data, reduced.reader))
    IN [seqProfile |-> seqProfile.value,
        stillPicture |-> stillPicture.value = 1,
        reducedStillPictureHeader |-> reduced.value = 1,
        maxFrameWidth |-> size.width,
        maxFrameHeight |-> size.height,
        bitDepth |-> SequenceBitDepth(seqProfile.value, FALSE, FALSE),
        monochrome |-> FALSE, colorSpace |-> 0, subX |-> 1, subY |-> 1,
        matrixCoefficients |-> 0, colorRange |-> FALSE]

-----------------------------------------------------------------------------
(* Sequence header calls: parseSequenceHeader on a payload written field   *)
(* by field, most significant bit first.                                   *)

(* The n bits of value, most significant first.                            *)
BitsOf(value, n) == [i \in 1 .. n |-> (value \div 2 ^ (n - i)) % 2]

(* The byte made of bits[from .. from + 7], with `pad` past the end.       *)
ByteOfBits(bits, from, pad) ==
    LET bit(i) == IF from + i <= Len(bits) THEN bits[from + i] ELSE pad
    IN 128 * bit(0) + 64 * bit(1) + 32 * bit(2) + 16 * bit(3)
       + 8 * bit(4) + 4 * bit(5) + 2 * bit(6) + bit(7)

(* The bytes holding bits, the last byte filled up with `pad`.             *)
PackBits(bits, pad) ==
    [k \in 1 .. ((Len(bits) + 7) \div 8) |-> ByteOfBits(bits, 8 * (k - 1) + 1, pad)]

SizeBitsMinus1 == {0, 1, 7, 10, 15}
SizeFields == {0, 1, 100, 1079, 1919, 2047, 40000, 65535}

SeqFields ==
    {f \in [profile : {0, 2}, still : {1}, reduced : {0, 1}, level : {0, 31},
            widthBitsMinus1 : SizeBitsMinus1, heightBitsMinus1 : SizeBitsMinus1,
            widthField : SizeFields, heightField : SizeFields,
            pad : {0, 1}, trailing : {0, 1}] :
        /\ f.widthField < 2 ^ (f.widthBitsMinus1 + 1)
        /\ f.heightField < 2 ^ (f.heightBitsMinus1 + 1)}

(* The payload with the fields of f, laid out as the reduced header is,    *)
(* followed by f.trailing further bytes.                                   *)
SeqPayload(f) ==
    PackBits(BitsOf(f.profile, 3) \o BitsOf(f.still, 1) \o BitsOf(f.reduced, 1)
             \o BitsOf(f.level, 5)
             \o BitsOf(f.widthBitsMinus1, 4) \o BitsOf(f.heightBitsMinus1, 4)
             \o BitsOf(f.widthField, f.widthBitsMinus1 + 1)
             \o BitsOf(f.heightField, f.heightBitsMinus1 + 1),
             f.pad)
    \o [i \in 1 .. f.trailing |-> 255 * f.pad]

SeqInit ==
    /\ pc = "ready"
    /\ \E f \in SeqFields : input = [fields |-> f, data |-> SeqPayload(f)]
    /\ output = NoValue

ParseSequenceHeader ==
    /\ pc = "ready"
    /\ pc' = "parsed"
    /\ output' = parseSequenceHeader(input.data)
    /\ UNCHANGED input

SeqNext == ParseSequenceHeader

SeqSpec == SeqInit /\ [][SeqNext]_vars

(* C5: for a payload with reduced_still_picture_header = 1,                *)
(* parseSequenceHeader reads the 5-bit level, the 4-bit                    *)
(* frameWidthBitsMinus1 = a and frameHeightBitsMinus1 = b, then a width    *)
(* field of exactly a + 1 bits and a height field of exactly b + 1 bits,   *)
(* and returns maxFrameWidth = width field + 1 and maxFrameHeight = height *)
(* field + 1, whatever bits follow the height field.                       *)
C5_ReducedHeaderSize ==
    (pc = "parsed" /\ input.fields.reduced = 1) =>
        /\ output.reducedStillPictureHeader
        /\ output.maxFrameWidth = input.fields.widthField + 1
        /\ output.maxFrameHeight = input.fields.heightField + 1

(* a = b = 10 with fields 1919 and 1079 was parsed as 1920 x 1080.         *)
C5_Witness ==
    /\ pc = "parsed"
    /\ input.fields.reduced = 1
    /\ input.fields.widthBitsMinus1 = 10
    /\ input.fields.heightBitsMinus1 = 10
    /\ input.fields.widthField = 1919
    /\ input.fields.heightField = 1079
    /\ input.fields.pad = 1
    /\ output.maxFrameWidth = 1920
    /\ output.maxFrameHeight = 1080

-----------------------------------------------------------------------------
(* Strings and big-endian fields.                                          *)

Letters == <<"a", "b", "c", "d", "e", "f", "g", "h", "i", "j", "k", "l", "m",
             "n", "o", "p", "q", "r", "s", "t", "u", "v", "w", "x", "y", "z">>
Capitals == <<"A", "B", "C", "D", "E", "F", "G", "H", "I", "J", "K", "L", "M",
              "N", "O", "P", "Q", "R", "S", "T", "U", "V", "W", "X", "Y", "Z">>
Digits == <<"0", "1", "2", "3", "4", "5", "6", "7", "8", "9">>

(* String.prototype.charCodeAt for the characters the formats use.         *)
CharCode(c) ==
    IF \E i \in 1 .. 26 : Letters[i] = c
    THEN 96 + (CHOOSE i \in 1 .. 26 : Letters[i] = c)
    ELSE IF \E i \in 1 .. 26 : Capitals[i] = c
    THEN 64 + (CHOOSE i \in 1 .. 26 : Capitals[i] = c)
    ELSE 47 + (CHOOSE i \in 1 .. 10 : Digits[i] = c)

(* The character codes of the string whose characters are chars.           *)
Text(chars) == [i \in 1 .. Len(chars) |-> CharCode(chars[i])]

(* String.fromCharCode(b[o], b[o+1], b[o+2], b[o+3]).                      *)
FourCC(buffer, o) ==
    <<ByteAt(buffer, o), ByteAt(buffer, o + 1), ByteAt(buffer, o + 2), ByteAt(buffer, o + 3)>>

(* Whether a DataView read of n bytes at o lies inside the view; outside,  *)
(* the read throws a RangeError.                                           *)
InView(buffer, o, n) == o >= 0 /\ o + n <= Len(buffer)

(* DataView.getUint16(o) and getUint32(o), big-endian, for reads inside    *)
(* the view.                                                               *)
GetUint16(buffer, o) == buffer[o + 1] * 256 + buffer[o + 2]
GetUint32(buffer, o) ==
    ((buffer[o + 1] * 256 + buffer[o + 2]) * 256 + buffer[o + 3]) * 256 + buffer[o + 4]

(* DataView.setUint16(o, v) and setUint32(o, v): the bytes written.        *)
Uint16Bytes(v) == <<(v \div 256) % 256, v % 256>>
Uint32Bytes(v) == <<(v \div 16777216) % 256, (v \div 65536) % 256, (v \div 256) % 256, v % 256>>

RangeError == [kind |-> "throws", error |-> "RangeError"]

-----------------------------------------------------------------------------
(* container/heif.ts: parseISOBMFF.                                        *)

ContainerTypes ==
    {Text(<<"m", "o", "o", "v">>), Text(<<"t", "r", "a", "k">>),
     Text(<<"m", "d", "i", "a">>), Text(<<"m", "i", "n", "f">>),
     Text(<<"s", "t", "b", "l">>), Text(<<"d", "i", "n", "f">>),
     Text(<<"m", "e", "t", "a">>), Text(<<"i", "p", "r", "p">>),
     Text(<<"i", "p", "c", "o">>), Text(<<"i", "r", "e", "f">>),
     Text(<<"g", "r", "p", "l">>)}

isContainerBox(type) == type \in ContainerTypes

(* A box of size 0 taken as a header with nothing after it.                *)
BoxSizeToEnd_HeaderOnly(buffer, offset) == 8

(* size === 0: boxSize = buffer.length - offset                            *)
BoxSizeToEnd(buffer, offset) == Len(buffer) - offset

(* size === 1: boxSize = highSize * 0x100000000 + lowSize.  The product is *)
(* beyond the integers of TLC unless highSize is 0.                *)
BoxSize64(highSize, lowSize) ==
    IF highSize = 0 THEN lowSize ELSE highSize * (65536 * 65536) + lowSize

(* The while loop of parseISOBMFF from `offset`, with the boxes pushed so  *)
(* far.  The result is the box list, or the RangeError of a read outside   *)
(* the buffer; a box of boxSize 0 leaves offset where it was, and the loop *)
(* then pushes the same box for ever.                                      *)
RECURSIVE ParseBoxesLoop(_, _, _)
ParseBoxesLoop(buffer, offset, boxes) ==
    IF ~(offset < Len(buffer) - 8) THEN [kind |-> "ok", boxes |-> boxes]
    ELSE LET size == GetUint32(buffer, offset)
             type == FourCC(buffer, offset + 4)
             boxSize == IF size = 1
                        THEN BoxSize64(GetUint32(buffer, offset + 8),
                                       GetUint32(buffer, offset + 12))
                        ELSE IF size = 0 THEN BoxSizeToEnd(buffer, offset)
                        ELSE size
             headerSize == IF size = 1 THEN 16 ELSE 8
             data == Slice(buffer, offset + headerSize, offset + boxSize)
             inner == IF isContainerBox(type) THEN ParseBoxesLoop(data, 0, <<>>)
                      ELSE [kind |-> "ok", boxes |-> <<>>]
             box == [type |-> type, size |-> boxSize, offset |-> offset,
                     data |-> data, container |-> isContainerBox(type),
                     children |-> inner.boxes]
         IN IF size = 1 /\ ~InView(buffer, offset + 8, 8) THEN RangeError
            ELSE IF inner.kind # "ok" THEN inner
            ELSE IF boxSize = 0 THEN [kind |-> "diverges"]
            ELSE ParseBoxesLoop(buffer, offset + boxSize, Append(boxes, box))

(* parseISOBMFF(buffer).  A box is [type, size, offset, data] and, when    *)
(* `container`, children.                                                  *)
parseISOBMFF(buffer) == ParseBoxesLoop(buffer, 0, <<>>)

-----------------------------------------------------------------------------
(* Container calls: parseISOBMFF on a buffer made of boxes whose size      *)
(* fields are right or wrong in every way the format allows.               *)

(* A box with the 32-bit size form, and one with the extended form.        *)
BoxBytes32(size, type, payload) == Uint32Bytes(size) \o type \o payload
BoxBytes64(size, type, payload) ==
    Uint32Bytes(1) \o type \o Uint32Bytes(0) \o Uint32Bytes(size) \o payload

(* n bytes that are no box header.                                         *)
Filler(n) == [i \in 1 .. n |-> 160 + i]

(* How a box states its size: as it is, 0 (to the end of the buffer), less *)
(* than its header, or more than it has; in the 32-bit or the extended     *)
(* form.                                                                   *)
Forms32 == {"exact", "toEnd", "short", "long"}
Forms64 == {"exact64", "zero64", "short64", "long64"}
Forms == Forms32 \cup Forms64

(* The bytes a box states beyond those it has, in the forms "long" and     *)
(* "long64".                                                               *)
Excess == 5

FormedBox(form, type, payload) ==
    CASE form = "exact" -> BoxBytes32(8 + Len(payload), type, payload)
      [] form = "toEnd" -> BoxBytes32(0, type, payload)
      [] form = "short" -> BoxBytes32(4, type, payload)
      [] form = "long" -> BoxBytes32(8 + Len(payload) + Excess, type, payload)
      [] form = "exact64" -> BoxBytes64(16 + Len(payload), type, payload)
      [] form = "zero64" -> BoxBytes64(0, type, payload)
      [] form = "short64" -> BoxBytes64(8, type, payload)
      [] form = "long64" -> BoxBytes64(16 + Len(payload) + Excess, type, payload)

TypeFree == Text(<<"f", "r", "e", "e">>)
TypeMdat == Text(<<"m", "d", "a", "t">>)
TypeMoov == Text(<<"m", "o", "o", "v">>)
TypeMeta == Text(<<"m", "e", "t", "a">>)

(* The longest payload of a box that is no container.                      *)
MaxFill == 9

InnerBoxes == {FormedBox(form, TypeFree, Filler(n)) : form \in Forms, n \in {0, 2}}
InnerTails == {<<>>} \cup {FormedBox(form, TypeFree, Filler(n)) :
                              form \in {"exact", "toEnd"}, n \in {0, 2}}
ContainerPayloads == {<<>>} \cup {a \o b : a \in InnerBoxes, b \in InnerTails}

FirstBoxes ==
    {FormedBox(form, type, Filler(n)) :
        form \in Forms, type \in {TypeFree, TypeMdat}, n \in {0, 1, MaxFill}}
    \cup {FormedBox(form, TypeMoov, payload) :
              form \in {"exact", "toEnd", "long"}, payload \in ContainerPayloads}

NextBoxes == {<<>>} \cup {FormedBox(form, TypeFree, Filler(n)) : form \in Forms, n \in {0, 2}}

BoxBuffers == {a \o b \o Filler(n) : a \in FirstBoxes, b \in NextBoxes, n \in {0, 3}}

BoxInit ==
    /\ pc = "ready"
    /\ input \in [buffer : BoxBuffers]
    /\ output = NoValue

ParseISOBMFF ==
    /\ pc = "ready"
    /\ pc' = "parsed"
    /\ output' = parseISOBMFF(input.buffer)
    /\ UNCHANGED input

BoxNext == ParseISOBMFF

BoxSpec == BoxInit /\ [][BoxNext]_vars

(* Every box of a returned tree with the buffer it was parsed from (the    *)
(* input, or its parent's data), its place in its list and the length of   *)
(* the list.                                                               *)
RECURSIVE Placed(_, _)
Placed(buffer, boxes) ==
    {[buffer |-> buffer, box |-> boxes[i], index |-> i, count |-> Len(boxes)] :
        i \in 1 .. Len(boxes)}
    \cup UNION {Placed(boxes[i].data, boxes[i].children) : i \in 1 .. Len(boxes)}

(* The header bytes of a returned box: 16 when its size field is 1.        *)
HeaderSizeOf(p) == IF GetUint32(p.buffer, p.box.offset) = 1 THEN 16 ELSE 8

(* C8: a box whose 32-bit size field is 0 and which is followed by further *)
(* bytes is returned with size equal to the number of bytes from its start *)
(* to the end of the buffer and with all those following bytes as its      *)
(* payload, and no further box is returned after it at that level.         *)
C8_ZeroSizeToEnd ==
    (pc = "parsed" /\ output.kind = "ok") =>
        \A p \in Placed(input.buffer, output.boxes) :
            GetUint32(p.buffer, p.box.offset) = 0 =>
                /\ p.box.size = Len(p.buffer) - p.box.offset
                /\ p.box.data = SubSeq(p.buffer, p.box.offset + 9, Len(p.buffer))
                /\ Len(p.box.data) > 0
                /\ p.index = p.count

(* A box of size 0 followed by the bytes of a well-formed box was parsed:  *)
(* the result is that one box, holding the bytes of the other.             *)
C8_Witness ==
    /\ pc = "parsed"
    /\ input.buffer = FormedBox("toEnd", TypeFree, Filler(1))
                      \o FormedBox("exact", TypeFree, Filler(2)) \o Filler(3)
    /\ output.kind = "ok"
    /\ Len(output.boxes) = 1
    /\ output.boxes[1].size = 22
    /\ output.boxes[1].data = Filler(1) \o FormedBox("exact", TypeFree, Filler(2)) \o Filler(3)

(* C9: parseISOBMFF terminates on every finite buffer: an input with a box *)
(* whose declared size (32-bit or extended) is smaller than its own header *)
(* is rejected, and the parse loop never runs without advancing its        *)
(* cursor.                                                                 *)
C9_ParseTerminates == pc = "parsed" => output.kind # "diverges"

(* C10: parseISOBMFF fails whenever a box's declared size makes the box    *)
(* end past the end of the buffer being parsed: no returned tree holds a   *)
(* box that ends past its buffer, its payload cut to the bytes available.  *)
C10_NoTruncatedBox ==
    (pc = "parsed" /\ output.kind = "ok") =>
        \A p \in Placed(input.buffer, output.boxes) :
            p.box.offset + p.box.size <= Len(p.buffer)

(* The sizes of the boxes of a list, added up.                             *)
RECURSIVE SizesSum(_)
SizesSum(boxes) ==
    IF boxes = <<>> THEN 0 ELSE boxes[1].size + SizesSum(Tail(boxes))

(* Where the last box of a list parsed from a buffer ends: 0 for no box.   *)
EndOfBoxes(boxes) ==
    IF boxes = <<>> THEN 0 ELSE boxes[Len(boxes)].offset + boxes[Len(boxes)].size

(* Whether the bytes of buffer after the boxes returned for it are one box *)
(* of 8 bytes, header only.                                                *)
HeaderOnlyBoxLeft(buffer, boxes) ==
    /\ Len(buffer) - EndOfBoxes(boxes) = 8
    /\ GetUint32(buffer, EndOfBoxes(boxes)) = 8

(* C17: every box in the tree returned by parseISOBMFF satisfies size =    *)
(* header size (8, or 16 for the extended form) + data.length, and every   *)
(* box of a container type has children whose sizes sum to its             *)
(* data.length; a header-only 8-byte box at the end of a buffer is         *)
(* returned as a box and not skipped.                                      *)
C17_BoxSizesAddUp ==
    (pc = "parsed" /\ output.kind = "ok") =>
        /\ \A p \in Placed(input.buffer, output.boxes) :
              /\ p.box.size = HeaderSizeOf(p) + Len(p.box.data)
              /\ p.box.container =>
                    /\ SizesSum(p.box.children) = Len(p.box.data)
                    /\ ~HeaderOnlyBoxLeft(p.box.data, p.box.children)
        /\ ~HeaderOnlyBoxLeft(input.buffer, output.boxes)

-----------------------------------------------------------------------------
(* container/heif.ts: validateFtyp.                                        *)

TypeFtyp == Text(<<"f", "t", "y", "p">>)

validBrands ==
    {Text(<<"a", "v", "i", "f">>), Text(<<"a", "v", "i", "s">>),
     Text(<<"m", "i", "f", "1">>), Text(<<"m", "i", "a", "f">>)}

(* The compatible brands loop from brand i on: `i < numBrands` with        *)
(* numBrands = (size - 16) / 4, a fraction when size is no multiple of 4.  *)
(* A brand read wholly past the end of the buffer is four NUL characters,  *)
(* and so are all after it: none is valid.                                 *)
RECURSIVE CompatibleBrandsLoop(_, _, _)
CompatibleBrandsLoop(buffer, size, i) ==
    IF ~(4 * i < size - 16) \/ 16 + 4 * i >= Len(buffer) THEN FALSE
    ELSE IF FourCC(buffer, 16 + 4 * i) \in validBrands THEN TRUE
    ELSE CompatibleBrandsLoop(buffer, size, i + 1)

(* validateFtyp(buffer).                                                   *)
validateFtyp(buffer) ==
    IF ~InView(buffer, 0, 4) THEN RangeError
    ELSE [kind |-> "ok",
          value |-> IF FourCC(buffer, 4) # TypeFtyp THEN FALSE
                    ELSE IF FourCC(buffer, 8) \in validBrands THEN TRUE
                    ELSE CompatibleBrandsLoop(buffer, GetUint32(buffer, 0), 0)]

-----------------------------------------------------------------------------
(* File type calls: validateFtyp on a buffer that starts with a box of a   *)
(* given type, major brand and compatible brands, its size stated in one   *)
(* of the forms of the box header.                                         *)

Brands ==
    validBrands \cup {Text(<<"h", "e", "i", "c">>), Text(<<"M", "A", "1", "A">>)}

(* The most compatible brands a box lists.                                 *)
MaxBrands == 2

RECURSIVE BrandLists(_)
BrandLists(n) ==
    IF n = 0 THEN {<<>>}
    ELSE BrandLists(n - 1)
         \cup {Append(l, b) : l \in {k \in BrandLists(n - 1) : Len(k) = n - 1}, b \in Brands}

FtypArgs ==
    [form : {"exact", "toEnd", "long", "exact64"},
     type : {TypeFtyp, TypeFree},
     major : Brands,
     compatible : BrandLists(MaxBrands),
     next : {<<>>, FormedBox("exact", TypeFree, Filler(2))}]

(* The buffer of f.  A box that extends to the end of the buffer has no    *)
(* box after it.                                                           *)
FtypBuffer(f) ==
    FormedBox(f.form, f.type, f.major \o Uint32Bytes(0) \o Concat(f.compatible))
    \o (IF f.form = "toEnd" THEN <<>> ELSE f.next)

FtypInit ==
    /\ pc = "ready"
    /\ \E f \in FtypArgs : input = [box |-> f, buffer |-> FtypBuffer(f)]
    /\ output = NoValue

ValidateFtyp ==
    /\ pc = "ready"
    /\ pc' = "validated"
    /\ output' = validateFtyp(input.buffer)
    /\ UNCHANGED input

FtypNext == ValidateFtyp

FtypSpec == FtypInit /\ [][FtypNext]_vars

(* C3: validateFtyp returns true for every buffer whose first box has type *)
(* ftyp and whose major brand or any compatible brand is one of avif,      *)
(* avis, mif1, miaf, and false for every buffer whose type field is not    *)
(* ftyp or whose major and compatible brands are all outside that set.     *)
C3_FtypBrands ==
    pc = "validated" =>
        /\ output.kind = "ok"
        /\ output.value =
              (/\ input.box.type = TypeFtyp
               /\ \/ input.box.major \in validBrands
                  \/ \E i \in 1 .. Len(input.box.compatible) :
                         input.box.compatible[i] \in validBrands)

-----------------------------------------------------------------------------
(* container/heif.ts: findBox.                                             *)

(* undefined: the result of a search that found nothing, and of a read     *)
(* outside an array.                                                       *)
Undefined == [found |-> FALSE]

(* findBox(boxes, type): the for loop from box i on, depth first.          *)
RECURSIVE FindBoxFrom(_, _, _)
FindBoxFrom(boxes, i, type) ==
    IF i > Len(boxes) THEN Undefined
    ELSE IF boxes[i].type = type THEN [found |-> TRUE, box |-> boxes[i]]
    ELSE LET inner == IF boxes[i].container THEN FindBoxFrom(boxes[i].children, 1, type)
                      ELSE Undefined
         IN IF inner.found THEN inner ELSE FindBoxFrom(boxes, i + 1, type)

findBox(boxes, type) == FindBoxFrom(boxes, 1, type)

-----------------------------------------------------------------------------
(* container/heif.ts: parseIloc.                                           *)

(* getUint32(offset) * 0x100000000 + getUint32(offset + 4).  The product   *)
(* is beyond the integers of TLC unless the high word is 0.                *)
GetUint64(data, offset) ==
    IF GetUint32(data, offset) = 0 THEN GetUint32(data, offset + 4)
    ELSE GetUint32(data, offset) * (65536 * 65536) + GetUint32(data, offset + 4)

(* A field of `size` bytes at offset, as parseIloc reads base offsets,     *)
(* extent offsets and extent lengths: sizes 4 and 8 are read, a field of   *)
(* any other size is 0 and takes no bytes.                                 *)
SizedField(data, offset, size) ==
    IF size = 4
    THEN IF InView(data, offset, 4)
         THEN [kind |-> "ok", value |-> GetUint32(data, offset), offset |-> offset + 4]
         ELSE RangeError
    ELSE IF size = 8
    THEN IF InView(data, offset, 8)
         THEN [kind |-> "ok", value |-> GetUint64(data, offset), offset |-> offset + 8]
         ELSE RangeError
    ELSE [kind |-> "ok", value |-> 0, offset |-> offset]

(* The header fields of an iloc payload.                                   *)
IlocSizes(data) ==
    LET version == ByteAt(data, 0)
    IN [version |-> version,
        offsetSize |-> (ByteAt(data, 4) \div 16) % 16,
        lengthSize |-> ByteAt(data, 4) % 16,
        baseOffsetSize |-> (ByteAt(data, 5) \div 16) % 16,
        indexSize |-> IF version = 1 \/ version = 2 THEN ByteAt(data, 5) % 16 ELSE 0]

(* The extents loop from extent j on.                                      *)
RECURSIVE ParseExtentsLoop(_, _, _, _, _, _)
ParseExtentsLoop(data, sizes, offset, j, extentCount, extents) ==
    IF ~(j < extentCount) THEN [kind |-> "ok", extents |-> extents, offset |-> offset]
    ELSE LET extentOffset == SizedField(data, offset + sizes.indexSize, sizes.offsetSize)
             extentLength == SizedField(data, extentOffset.offset, sizes.lengthSize)
         IN IF extentOffset.kind # "ok" THEN RangeError
            ELSE IF extentLength.kind # "ok" THEN RangeError
            ELSE ParseExtentsLoop(data, sizes, extentLength.offset, j + 1, extentCount,
                                  Append(extents, [extentOffset |-> extentOffset.value,
                                                   extentLength |-> extentLength.value]))

(* The items loop from item i on.                                          *)
RECURSIVE ParseItemsLoop(_, _, _, _, _, _)
ParseItemsLoop(data, sizes, offset, i, itemCount, items) ==
    IF ~(i < itemCount) THEN [kind |-> "ok", items |-> items]
    ELSE LET idSize == IF sizes.version < 2 THEN 2 ELSE 4
             methodSize == IF sizes.version = 1 \/ sizes.version = 2 THEN 2 ELSE 0
             atMethod == offset + idSize
             atReference == atMethod + methodSize
             baseOffset == SizedField(data, atReference + 2, sizes.baseOffsetSize)
             extents == ParseExtentsLoop(data, sizes, baseOffset.offset + 2, 0,
                                         GetUint16(data, baseOffset.offset), <<>>)
         IN IF ~InView(data, offset, idSize) THEN RangeError
            ELSE IF methodSize = 2 /\ ~InView(data, atMethod, 2) THEN RangeError
            ELSE IF ~InView(data, atReference, 2) THEN RangeError
            ELSE IF baseOffset.kind # "ok" THEN RangeError
            ELSE IF ~InView(data, baseOffset.offset, 2) THEN RangeError
            ELSE IF extents.kind # "ok" THEN RangeError
            ELSE ParseItemsLoop(data, sizes, extents.offset, i + 1, itemCount,
                     Append(items,
                            [itemId |-> IF idSize = 2 THEN GetUint16(data, offset)
                                        ELSE GetUint32(data, offset),
                             constructionMethod |->
                                 IF methodSize = 2 THEN GetUint16(data, atMethod) % 16 ELSE 0,
                             dataReferenceIndex |-> GetUint16(data, atReference),
                             baseOffset |-> baseOffset.value,
                             extents |-> extents.extents]))

(* parseIloc(data).  With no byte 0 `version` is undefined, `version < 2`  *)
(* is false and the 32-bit item count is read, outside the view.           *)
parseIloc(data) ==
    LET sizes == IlocSizes(data)
        countSize == IF Len(data) > 0 /\ sizes.version < 2 THEN 2 ELSE 4
    IN IF ~InView(data, 6, countSize) THEN RangeError
       ELSE ParseItemsLoop(data, sizes, 6 + countSize, 0,
                           IF countSize = 2 THEN GetUint16(data, 6) ELSE GetUint32(data, 6),
                           <<>>)

-----------------------------------------------------------------------------
(* container/heif.ts: getImageData.                                        *)

TypeIloc == Text(<<"i", "l", "o", "c">>)

(* locations.find taken as the first location, whatever its item.          *)
FindLocation_First(locations, itemId) == IF Len(locations) > 0 THEN 1 ELSE 0

(* loc => loc.itemId === itemId: the first location of the item, 0 if      *)
(* there is none.                                                          *)
FindLocation(locations, itemId) ==
    IF \E i \in 1 .. Len(locations) : locations[i].itemId = itemId
    THEN CHOOSE i \in 1 .. Len(locations) :
             /\ locations[i].itemId = itemId
             /\ \A k \in 1 .. i - 1 : locations[k].itemId # itemId
    ELSE 0

(* mdatBox.offset + 8                                                      *)
MdatPayloadStart(mdatBox) == mdatBox.offset + 8

(* The parts of the extents of a location, in the order of the list.       *)
ExtentParts(buffer, location, mdatOffset) ==
    [j \in 1 .. Len(location.extents) |->
        LET offset == location.baseOffset + location.extents[j].extentOffset + mdatOffset
        IN Slice(buffer, offset, offset + location.extents[j].extentLength)]

(* getImageData(buffer, boxes, itemId).                                    *)
getImageData(buffer, boxes, itemId) ==
    LET metaBox == findBox(boxes, TypeMeta)
        ilocBox == findBox(metaBox.box.children, TypeIloc)
        locations == parseIloc(ilocBox.box.data)
        at == FindLocation(locations.items, itemId)
        mdatBox == findBox(boxes, TypeMdat)
        mdatOffset == IF mdatBox.found THEN MdatPayloadStart(mdatBox.box) ELSE 0
    IN IF ~metaBox.found \/ ~metaBox.box.container THEN [kind |-> "null"]
       ELSE IF ~ilocBox.found THEN [kind |-> "null"]
       ELSE IF locations.kind # "ok" THEN locations
       ELSE IF at = 0 THEN [kind |-> "null"]
       ELSE [kind |-> "ok",
             bytes |-> Concat(ExtentParts(buffer, locations.items[at], mdatOffset))]

-----------------------------------------------------------------------------
(* Item data calls: getImageData on a file of an optional free box, a meta *)
(* box that holds an iloc box, and an mdat box, with the boxes that        *)
(* parseISOBMFF returns for it.                                            *)

(* The payload of mdat.                                                    *)
MdatPayload == <<201, 202, 203, 204, 205, 206, 207, 208>>

Extent(offset, length) == [extentOffset |-> offset, extentLength |-> length]

ExtentLists ==
    {<<>>,
     <<Extent(0, 4), Extent(4, 4)>>,
     <<Extent(4, 4), Extent(0, 4)>>,
     <<Extent(0, 6)>>,
     <<Extent(0, 2), Extent(0, 3)>>,
     <<Extent(1, 2), Extent(0, 1), Extent(3, 3)>>}

(* The items whose extents lie in the payload of mdat.                     *)
IlocItems ==
    {item \in [itemId : {1, 2}, constructionMethod : {0, 1, 2}, baseOffset : {0, 2},
               extents : ExtentLists] :
        \A j \in 1 .. Len(item.extents) :
            item.baseOffset + item.extents[j].extentOffset + item.extents[j].extentLength
                <= Len(MdatPayload)}

SecondItems ==
    {[itemId |-> 1, constructionMethod |-> 0, baseOffset |-> 0, extents |-> <<Extent(0, 1)>>],
     [itemId |-> 2, constructionMethod |-> 0, baseOffset |-> 0, extents |-> <<Extent(0, 8)>>]}

IlocItemLists == {<<a>> : a \in IlocItems} \cup {<<a, b>> : a \in IlocItems, b \in SecondItems}

(* iloc boxes: the field sizes and the items they can hold.                *)
IlocBoxes ==
    {b \in [version : {0, 1}, offsetSize : {0, 4}, baseOffsetSize : {0, 4},
            indexSize : {0, 2}, items : IlocItemLists] :
        /\ b.version = 0 => b.indexSize = 0
        /\ \A i \in 1 .. Len(b.items) :
               /\ b.version = 0 => b.items[i].constructionMethod = 0
               /\ b.baseOffsetSize = 0 => b.items[i].baseOffset = 0
               /\ b.offsetSize = 0 =>
                      \A j \in 1 .. Len(b.items[i].extents) :
                          b.items[i].extents[j].extentOffset = 0}

(* The bytes of an extent and of an item in an iloc box b.                 *)
ExtentBytes(b, extent) ==
    [k \in 1 .. b.indexSize |-> 0]
    \o (IF b.offsetSize = 4 THEN Uint32Bytes(extent.extentOffset) ELSE <<>>)
    \o Uint32Bytes(extent.extentLength)

ItemBytes(b, item) ==
    Uint16Bytes(item.itemId)
    \o (IF b.version = 1 THEN Uint16Bytes(item.constructionMethod) ELSE <<>>)
    \o Uint16Bytes(0)
    \o (IF b.baseOffsetSize = 4 THEN Uint32Bytes(item.baseOffset) ELSE <<>>)
    \o Uint16Bytes(Len(item.extents))
    \o Concat([j \in 1 .. Len(item.extents) |-> ExtentBytes(b, item.extents[j])])

(* The payload of the iloc box b: version, flags, the field sizes, the     *)
(* item count and the items.                                               *)
IlocPayload(b) ==
    <<b.version, 0, 0, 0, b.offsetSize * 16 + 4, b.baseOffsetSize * 16 + b.indexSize>>
    \o Uint16Bytes(Len(b.items))
    \o Concat([i \in 1 .. Len(b.items) |-> ItemBytes(b, b.items[i])])

ImgFiles ==
    [free : {<<>>, FormedBox("exact", TypeFree, Filler(3))},
     iloc : IlocBoxes,
     mdatForm : {"exact", "toEnd", "exact64"},
     itemId : {1, 2, 3}]

(* The bytes of the file f before mdat, and the file.                      *)
BeforeMdat(f) ==
    f.free \o FormedBox("exact", TypeMeta, FormedBox("exact", TypeIloc, IlocPayload(f.iloc)))

ImgBuffer(f) == BeforeMdat(f) \o FormedBox(f.mdatForm, TypeMdat, MdatPayload)

ImgInit ==
    /\ pc = "ready"
    /\ \E f \in ImgFiles : input = [file |-> f, buffer |-> ImgBuffer(f)]
    /\ output = NoValue

(* decode: getImageData(data, parseISOBMFF(data), itemId).                 *)
GetImageData ==
    /\ pc = "ready"
    /\ pc' = "located"
    /\ output' = LET boxes == parseISOBMFF(input.buffer)
                 IN IF boxes.kind # "ok" THEN boxes
                    ELSE getImageData(input.buffer, boxes.boxes, input.file.itemId)
    /\ UNCHANGED input

ImgNext == GetImageData

ImgSpec == ImgInit /\ [][ImgNext]_vars

(* The place of the first item with id itemId in the iloc box of the file, *)
(* 0 if there is none.                                                     *)
ListedAt(f) ==
    IF \E i \in 1 .. Len(f.iloc.items) : f.iloc.items[i].itemId = f.itemId
    THEN CHOOSE i \in 1 .. Len(f.iloc.items) :
             /\ f.iloc.items[i].itemId = f.itemId
             /\ \A k \in 1 .. i - 1 : f.iloc.items[k].itemId # f.itemId
    ELSE 0

(* Where the payload of mdat starts in the file f.                         *)
StartOfMdatPayload(f) == Len(BeforeMdat(f)) + (IF f.mdatForm = "exact64" THEN 16 ELSE 8)

(* The byte ranges of the extents of an item, one after the other.         *)
ExtentRanges(buffer, item, base) ==
    Concat([j \in 1 .. Len(item.extents) |->
               SubSeq(buffer,
                      base + item.baseOffset + item.extents[j].extentOffset + 1,
                      base + item.baseOffset + item.extents[j].extentOffset
                          + item.extents[j].extentLength)])

(* C4: for an item found in iloc with construction method 0, getImageData  *)
(* returns the concatenation, in the order the extents are listed, of the  *)
(* byte ranges [base + baseOffset + extentOffset, + extentLength) of the   *)
(* file buffer, where base is the start of the payload of mdat.            *)
C4_ExtentsConcatenated ==
    (/\ pc = "located"
     /\ ListedAt(input.file) # 0
     /\ input.file.iloc.items[ListedAt(input.file)].constructionMethod = 0) =>
        /\ output.kind = "ok"
        /\ output.bytes = ExtentRanges(input.buffer,
                                       input.file.iloc.items[ListedAt(input.file)],
                                       StartOfMdatPayload(input.file))

(* C22: getImageData uses the start of the payload of mdat as the base of  *)
(* construction method 0 offsets for both box header forms: the offset of  *)
(* the mdat box + 8 for the 32-bit size form, and + 16 when mdat has the   *)
(* 64-bit extended size form (size field = 1).                             *)
C22_MdatBaseBothForms ==
    (/\ pc = "located"
     /\ ListedAt(input.file) # 0
     /\ input.file.iloc.items[ListedAt(input.file)].constructionMethod = 0) =>
        LET mdatBox == findBox(parseISOBMFF(input.buffer).boxes, TypeMdat)
        IN /\ mdatBox.found
           /\ MdatPayloadStart(mdatBox.box)
                 = mdatBox.box.offset
                   + (IF GetUint32(input.buffer, mdatBox.box.offset) = 1 THEN 16 ELSE 8)

(* C11 as stated: getImageData fails with an UnresolvedItem error when the *)
(* iloc box has no entry whose itemId equals the requested itemId.         *)
C11_UnresolvedItemError ==
    (pc = "located" /\ ListedAt(input.file) = 0) => output.kind = "throws"

(* C11 as the code has it: getImageData returns null, neither bytes nor an *)
(* error, when the iloc box has no entry whose itemId equals the requested *)
(* itemId.                                                                 *)
C11_AbsentItemNull ==
    (pc = "located" /\ ListedAt(input.file) = 0) => output = [kind |-> "null"]

(* Item 3 was asked for in a file whose iloc box lists items 1 and 2, and  *)
(* null came back.                                                         *)
C11_Witness ==
    /\ pc = "located"
    /\ input.file.itemId = 3
    /\ Len(input.file.iloc.items) = 2
    /\ input.file.iloc.items[1].itemId = 1
    /\ input.file.iloc.items[2].itemId = 2
    /\ output = [kind |-> "null"]

(* C12: getImageData fails explicitly, and returns no bytes, for every     *)
(* item whose iloc entry has construction method 1 or 2.                   *)
C12_OtherMethodsFail ==
    (/\ pc = "located"
     /\ ListedAt(input.file) # 0
     /\ input.file.iloc.items[ListedAt(input.file)].constructionMethod \in {1, 2}) =>
        output.kind = "throws"

-----------------------------------------------------------------------------
(* container/heif.ts: parseIinf, parseInfe, parseIspe, parsePixi,          *)
(* parseAv1C.                                                              *)

TypeInfe == Text(<<"i", "n", "f", "e">>)

(* The while loop of parseInfe: the characters of the item name from       *)
(* offset up to a zero byte or the end of the data.                        *)
RECURSIVE ItemNameFrom(_, _)
ItemNameFrom(data, offset) ==
    IF offset < Len(data) /\ data[offset + 1] # 0
    THEN <<data[offset + 1]>> \o ItemNameFrom(data, offset + 1)
    ELSE <<>>

(* parseInfe(data).  Versions below 3 hold a 16-bit item id; with no byte  *)
(* 0 `version` is undefined and the 32-bit id is read, outside the view.   *)
parseInfe(data) ==
    LET idSize == IF Len(data) > 0 /\ data[1] <= 2 THEN 2 ELSE 4
    IN IF ~InView(data, 4, idSize + 2) THEN RangeError
       ELSE [kind |-> "ok",
             item |-> [itemId |-> IF idSize = 2 THEN GetUint16(data, 4)
                                  ELSE GetUint32(data, 4),
                       itemProtectionIndex |-> GetUint16(data, 4 + idSize),
                       itemType |-> FourCC(data, 6 + idSize),
                       itemName |-> ItemNameFrom(data, 10 + idSize)]]

(* The entries loop of parseIinf from entry i on.                          *)
RECURSIVE ParseEntriesLoop(_, _, _, _, _)
ParseEntriesLoop(data, offset, i, entryCount, items) ==
    IF ~(i < entryCount) THEN [kind |-> "ok", items |-> items]
    ELSE IF ~InView(data, offset, 4) THEN RangeError
    ELSE LET entrySize == GetUint32(data, offset)
             itemInfo == parseInfe(Slice(data, offset + 8, offset + entrySize))
         IN IF FourCC(data, offset + 4) # TypeInfe
            THEN ParseEntriesLoop(data, offset + entrySize, i + 1, entryCount, items)
            ELSE IF itemInfo.kind # "ok" THEN itemInfo
            ELSE ParseEntriesLoop(data, offset + entrySize, i + 1, entryCount,
                                  Append(items, itemInfo.item))

(* parseIinf(data).  Version 0 holds a 16-bit entry count.                 *)
parseIinf(data) ==
    LET countSize == IF Len(data) > 0 /\ data[1] = 0 THEN 2 ELSE 4
    IN IF ~InView(data, 4, countSize) THEN RangeError
       ELSE ParseEntriesLoop(data, 4 + countSize, 0,
                             IF countSize = 2 THEN GetUint16(data, 4) ELSE GetUint32(data, 4),
                             <<>>)

(* parseIspe(data).                                                        *)
parseIspe(data) ==
    IF ~InView(data, 4, 8) THEN RangeError
    ELSE [kind |-> "ok", width |-> GetUint32(data, 4), height |-> GetUint32(data, 8)]

(* parsePixi(data).bitsPerChannel: a channel count or a channel read       *)
(* outside the data is undefined.                                          *)
parsePixi(data) ==
    IF 4 < Len(data)
    THEN [i \in 1 .. data[5] |-> IF 4 + i < Len(data) THEN data[5 + i] ELSE Undefined]
    ELSE <<>>

(* parseAv1C(data).                                                        *)
parseAv1C(data) ==
    IF ByteAt(data, 0) \div 128 # 1 \/ ByteAt(data, 0) % 128 # 1
    THEN [kind |-> "throws", error |-> "Invalid AV1 codec configuration"]
    ELSE [kind |-> "ok",
          seqProfile |-> (ByteAt(data, 1) \div 32) % 8,
          seqLevelIdx0 |-> ByteAt(data, 1) % 32,
          seqTier0 |-> (ByteAt(data, 2) \div 128) % 2,
          highBitdepth |-> (ByteAt(data, 2) \div 64) % 2,
          twelveBit |-> (ByteAt(data, 2) \div 32) % 2,
          monochrome |-> (ByteAt(data, 2) \div 16) % 2,
          chromaSubsamplingX |-> (ByteAt(data, 2) \div 8) % 2,
          chromaSubsamplingY |-> (ByteAt(data, 2) \div 4) % 2,
          chromaSamplePosition |-> ByteAt(data, 2) % 4]

-----------------------------------------------------------------------------
(* Codec configuration calls: parseAv1C on the payload of an av1C box.     *)

Av1CPayloads ==
    {<<>>, <<129>>}
    \cup {<<b0, b1, b2, b3>> : b0 \in {129, 1, 130, 128}, b1 \in {0, 45, 255},
                               b2 \in {0, 3, 12, 76, 168, 255}, b3 \in {0, 64, 128, 192, 255}}

Av1CInit ==
    /\ pc = "ready"
    /\ input \in [data : Av1CPayloads]
    /\ output = NoValue

ParseAv1C ==
    /\ pc = "ready"
    /\ pc' = "configured"
    /\ output' = parseAv1C(input.data)
    /\ UNCHANGED input

Av1CNext == ParseAv1C

Av1CSpec == Av1CInit /\ [][Av1CNext]_vars

InvalidCodecConfig == [kind |-> "throws", error |-> "Invalid AV1 codec configuration"]

(* Bit n of byte b, bit 7 the top one.                                     *)
BitOf(b, n) == (b \div 2 ^ n) % 2

(* C20: parseAv1C fails with the invalid codec configuration error unless  *)
(* the first payload byte has marker bit 1 and version 1; otherwise it     *)
(* returns profile = top 3 bits and level = low 5 bits of the second byte, *)
(* tier, highBitdepth, twelveBit, monochrome, subX, subY = bits 7..2 of    *)
(* the third byte, and chromaSamplePosition = the top 2 bits of the fourth *)
(* byte.                                                                   *)
C20_Av1CFields ==
    pc = "configured" =>
        IF Len(input.data) >= 1 /\ input.data[1] = 129
        THEN /\ Len(input.data) = 4 =>
                   output = [kind |-> "ok",
                             seqProfile |-> input.data[2] \div 32,
                             seqLevelIdx0 |-> input.data[2] % 32,
                             seqTier0 |-> BitOf(input.data[3], 7),
                             highBitdepth |-> BitOf(input.data[3], 6),
                             twelveBit |-> BitOf(input.data[3], 5),
                             monochrome |-> BitOf(input.data[3], 4),
                             chromaSubsamplingX |-> BitOf(input.data[3], 3),
                             chromaSubsamplingY |-> BitOf(input.data[3], 2),
                             chromaSamplePosition |-> input.data[4] \div 64]
             /\ output.kind = "ok"
        ELSE output = InvalidCodecConfig

-----------------------------------------------------------------------------
(* container/heif.ts: getAvifInfo; decoder.ts: getAlphaItemId.             *)

TypeIprp == Text(<<"i", "p", "r", "p">>)
TypeIpco == Text(<<"i", "p", "c", "o">>)
TypeIspe == Text(<<"i", "s", "p", "e">>)
TypePixi == Text(<<"p", "i", "x", "i">>)
TypeAv1C == Text(<<"a", "v", "1", "C">>)
TypeIinf == Text(<<"i", "i", "n", "f">>)
TypeAuxl == Text(<<"a", "u", "x", "l">>)

(* String.prototype.includes.                                              *)
Includes(string, part) ==
    \E i \in 1 .. Len(string) - Len(part) + 1 :
        SubSeq(string, i, i + Len(part) - 1) = part

(* String.prototype.toLowerCase, for strings of ASCII characters.          *)
toLowerCase(string) ==
    [i \in 1 .. Len(string) |->
        IF string[i] >= 65 /\ string[i] <= 90 THEN string[i] + 32 ELSE string[i]]

(* boxes.some(box => box.type === type), taken over the boxes at every     *)
(* depth.                                                                  *)
SomeBoxOfType_AnyDepth(boxes, type) == findBox(boxes, type).found

(* boxes.some(box => box.type === type)                                    *)
SomeBoxOfType(boxes, type) == \E i \in 1 .. Len(boxes) : boxes[i].type = type

(* item => item.itemType === 'auxl' || item.itemName.includes('Alpha')     *)
IsAlphaInfo(item) ==
    item.itemType = TypeAuxl \/ Includes(item.itemName, Text(<<"A", "l", "p", "h", "a">>))

Error(message) == [kind |-> "throws", error |-> message]

(* getAvifInfo(boxes).                                                     *)
getAvifInfo(boxes) ==
    LET metaBox == findBox(boxes, TypeMeta)
        iprpBox == findBox(metaBox.box.children, TypeIprp)
        ipcoBox == findBox(iprpBox.box.children, TypeIpco)
        ispeBox == findBox(ipcoBox.box.children, TypeIspe)
        extent == IF ispeBox.found THEN parseIspe(ispeBox.box.data)
                  ELSE [kind |-> "ok", width |-> 0, height |-> 0]
        pixiBox == findBox(ipcoBox.box.children, TypePixi)
        bitsPerChannel == IF pixiBox.found THEN parsePixi(pixiBox.box.data) ELSE <<>>
        av1cBox == findBox(ipcoBox.box.children, TypeAv1C)
        config == IF av1cBox.found THEN parseAv1C(av1cBox.box.data)
                  ELSE [kind |-> "ok", highBitdepth |-> 0, twelveBit |-> 0]
        iinfBox == findBox(metaBox.box.children, TypeIinf)
        items == IF iinfBox.found THEN parseIinf(iinfBox.box.data)
                 ELSE [kind |-> "ok", items |-> <<>>]
    IN IF ~metaBox.found \/ ~metaBox.box.container THEN Error("No meta box found")
       ELSE IF ~iprpBox.found \/ ~iprpBox.box.container
       THEN Error("No item properties box found")
       ELSE IF ~ipcoBox.found \/ ~ipcoBox.box.container
       THEN Error("No item property container found")
       ELSE IF extent.kind # "ok" THEN extent
       ELSE IF config.kind # "ok" THEN config
       ELSE IF items.kind # "ok" THEN items
       ELSE [kind |-> "ok",
             width |-> extent.width,
             height |-> extent.height,
             hasAlpha |-> \E i \in 1 .. Len(items.items) : IsAlphaInfo(items.items[i]),
             bitDepth |-> IF config.highBitdepth # 0
                          THEN (IF config.twelveBit # 0 THEN 12 ELSE 10)
                          ELSE IF Len(bitsPerChannel) > 0 THEN bitsPerChannel[1]
                          ELSE 8,
             colorSpace |-> "srgb",
             isSequence |-> SomeBoxOfType(boxes, TypeMoov)]

(* getAlphaItemId(boxes): the id of the first item the loop accepts.       *)
getAlphaItemId(boxes) ==
    LET metaBox == findBox(boxes, TypeMeta)
        iinfBox == findBox(metaBox.box.children, TypeIinf)
        items == parseIinf(iinfBox.box.data)
        accepted == {i \in 1 .. Len(items.items) :
                        \/ items.items[i].itemType = TypeAuxl
                        \/ Includes(toLowerCase(items.items[i].itemName),
                                    Text(<<"a", "l", "p", "h", "a">>))}
    IN IF ~metaBox.found \/ ~metaBox.box.container THEN [kind |-> "null"]
       ELSE IF ~iinfBox.found THEN [kind |-> "null"]
       ELSE IF items.kind # "ok" THEN items
       ELSE IF accepted = {} THEN [kind |-> "null"]
       ELSE [kind |-> "ok",
             value |-> items.items[CHOOSE i \in accepted : \A k \in accepted : i <= k].itemId]

-----------------------------------------------------------------------------
(* File info calls: getAvifInfo and the alpha item lookup of decode on the *)
(* boxes parseISOBMFF returns for a file with a meta box and, at the top   *)
(* level or inside meta, a moov box.                                       *)

TypeAv01 == Text(<<"a", "v", "0", "1">>)

ItemNames ==
    {<<>>, Text(<<"A", "l", "p", "h", "a">>), Text(<<"a", "l", "p", "h", "a">>),
     Text(<<"C", "o", "l", "o", "r">>)}

InfoEntries == [itemType : {TypeAv01, TypeAuxl}, itemName : ItemNames]

(* The most entries an iinf box lists.                                     *)
MaxEntries == 2

RECURSIVE EntryLists(_)
EntryLists(n) ==
    IF n = 0 THEN {<<>>}
    ELSE EntryLists(n - 1)
         \cup {Append(l, e) : l \in {k \in EntryLists(n - 1) : Len(k) = n - 1},
                              e \in InfoEntries}

(* The infe box of entry number id, its item id 16 bits wide up to version *)
(* 2 and 32 bits wide from version 3 on.                                   *)
InfeBox(version, id, entry) ==
    FormedBox("exact", TypeInfe,
              <<version, 0, 0, 0>>
              \o (IF version <= 2 THEN Uint16Bytes(id) ELSE Uint32Bytes(id))
              \o Uint16Bytes(0) \o entry.itemType \o entry.itemName \o <<0>>)

IinfBox(version, entries) ==
    FormedBox("exact", TypeIinf,
              <<0, 0, 0, 0>> \o Uint16Bytes(Len(entries))
              \o Concat([i \in 1 .. Len(entries) |-> InfeBox(version, i, entries[i])]))

IspeBox == FormedBox("exact", TypeIspe, <<0, 0, 0, 0>> \o Uint32Bytes(4) \o Uint32Bytes(3))
PixiBox == FormedBox("exact", TypePixi, <<0, 0, 0, 0, 3, 8, 8, 8>>)

(* av1C payloads: 8 bit, 10 bit, and one without the marker bit.           *)
Av1CBox(config) ==
    CASE config = "none" -> <<>>
      [] config = "eight" -> FormedBox("exact", TypeAv1C, <<129, 0, 12, 0>>)
      [] config = "ten" -> FormedBox("exact", TypeAv1C, <<129, 0, 76, 0>>)
      [] config = "unmarked" -> FormedBox("exact", TypeAv1C, <<1, 0, 12, 0>>)

IprpBox(f) ==
    FormedBox("exact", TypeIprp,
              FormedBox("exact", TypeIpco,
                        IspeBox \o (IF f.pixi THEN PixiBox ELSE <<>>) \o Av1CBox(f.av1C)))

MoovBox == FormedBox("exact", TypeMoov, FormedBox("exact", TypeFree, Filler(1)))

InfoFiles ==
    [topMoov : {"none", "before", "after"},
     nestedMoov : BOOLEAN,
     iinf : BOOLEAN,
     infeVersion : {2, 3},
     entries : EntryLists(MaxEntries),
     iprp : BOOLEAN,
     pixi : BOOLEAN,
     av1C : {"none", "eight", "ten", "unmarked"}]

MetaBox(f) ==
    FormedBox("exact", TypeMeta,
              (IF f.nestedMoov THEN MoovBox ELSE <<>>)
              \o (IF f.iinf THEN IinfBox(f.infeVersion, f.entries) ELSE <<>>)
              \o (IF f.iprp THEN IprpBox(f) ELSE <<>>))

InfoBuffer(f) ==
    (IF f.topMoov = "before" THEN MoovBox ELSE <<>>)
    \o MetaBox(f)
    \o (IF f.topMoov = "after" THEN MoovBox ELSE <<>>)
    \o FormedBox("exact", TypeMdat, Filler(4))

(* A file without an iinf box has no entries, and one without an iprp box  *)
(* no properties.                                                          *)
InfoInit ==
    /\ pc = "ready"
    /\ \E f \in InfoFiles :
           /\ ~f.iinf => f.entries = <<>> /\ f.infeVersion = 2
           /\ ~f.iprp => ~f.pixi /\ f.av1C = "none"
           /\ input = [file |-> f, buffer |-> InfoBuffer(f)]
    /\ output = NoValue

(* decode: getAvifInfo(parseISOBMFF(data)).                                *)
GetAvifInfo ==
    /\ pc = "ready"
    /\ pc' = "described"
    /\ output' = [info |-> getAvifInfo(parseISOBMFF(input.buffer).boxes)]
    /\ UNCHANGED input

(* decode: getAlphaItemId(boxes), on the boxes of the same file.           *)
GetAlphaItemId ==
    /\ pc = "described"
    /\ pc' = "looked"
    /\ output' = [info |-> output.info,
                  alpha |-> getAlphaItemId(parseISOBMFF(input.buffer).boxes)]
    /\ UNCHANGED input

InfoNext == GetAvifInfo \/ GetAlphaItemId

InfoSpec == InfoInit /\ [][InfoNext]_vars

(* C6: for every box tree on which getAvifInfo succeeds, isSequence is     *)
(* true if and only if one of the top-level boxes has type moov; a moov    *)
(* box below the top level does not count.                                 *)
C6_SequenceIffTopLevelMoov ==
    (pc \in {"described", "looked"} /\ output.info.kind = "ok") =>
        (output.info.isSequence <=> input.file.topMoov # "none")

(* getAvifInfo succeeded on a file whose only moov box is inside meta and  *)
(* returned isSequence = false.                                            *)
C6_Witness ==
    /\ pc = "described"
    /\ output.info.kind = "ok"
    /\ input.file.topMoov = "none"
    /\ input.file.nestedMoov
    /\ ~output.info.isSequence

(* An entry the alpha item lookup accepts: its type is auxl or its name    *)
(* contains "alpha", in any case of the letters.                           *)
AlphaEntry(entry) ==
    \/ entry.itemType = TypeAuxl
    \/ Includes(toLowerCase(entry.itemName), Text(<<"a", "l", "p", "h", "a">>))

(* C7: for every box tree on which getAvifInfo succeeds, hasAlpha is true  *)
(* if and only if some entry of the iinf box of meta has item type auxl or *)
(* an item name containing "alpha", which are the entries getAlphaItemId   *)
(* accepts: hasAlpha is true exactly when getAlphaItemId finds an item.    *)
C7_AlphaIffAuxlOrName ==
    (pc = "looked" /\ output.info.kind = "ok") =>
        /\ output.info.hasAlpha <=>
               \E i \in 1 .. Len(input.file.entries) : AlphaEntry(input.file.entries[i])
        /\ output.info.hasAlpha <=> output.alpha.kind = "ok"

-----------------------------------------------------------------------------
(* encoder.ts: typed array and DataView writes.                            *)

(* new Uint8Array(size)                                                    *)
NewArray(size) == [kind |-> "ok", bytes |-> [i \in 1 .. size |-> 0]]

(* The writes of a builder, in source order: view.setUint32(at, value),    *)
(* view.setUint16(at, value), buffer[at] = value, the four buffer[at + i]  *)
(* of a type or brand, and buffer.set(array, at).                          *)
setUint32(at, value) == [op |-> "view", at |-> at, bytes |-> Uint32Bytes(value)]
setUint16(at, value) == [op |-> "view", at |-> at, bytes |-> Uint16Bytes(value)]
PutByte(at, value) == [op |-> "index", at |-> at, bytes |-> <<value % 256>>]
PutChars(at, text) == [op |-> "index", at |-> at, bytes |-> text]
setArray(array, at) == [op |-> "set", at |-> at, bytes |-> array]

(* One write into the bytes of a typed array.  A DataView write and        *)
(* TypedArray.set throw a RangeError when they do not fit; an indexed      *)
(* store outside the array is dropped.                                     *)
ApplyWrite(bytes, w) ==
    IF w.op # "index" /\ ~InView(bytes, w.at, Len(w.bytes)) THEN RangeError
    ELSE [kind |-> "ok",
          bytes |-> [i \in 1 .. Len(bytes) |->
                        IF i > w.at /\ i <= w.at + Len(w.bytes) THEN w.bytes[i - w.at]
                        ELSE bytes[i]]]

(* The writes of a builder one after the other, up to the first that       *)
(* throws.                                                                 *)
RECURSIVE ApplyWrites(_, _)
ApplyWrites(b, writes) ==
    IF b.kind # "ok" \/ writes = <<>> THEN b
    ELSE ApplyWrites(ApplyWrite(b.bytes, Head(writes)), Tail(writes))

(* The first of the results of the builders called, in call order, that is *)
(* an exception; the last result if none is.                               *)
RECURSIVE FirstFailure(_)
FirstFailure(results) ==
    IF Len(results) = 1 \/ Head(results).kind # "ok" THEN Head(results)
    ELSE FirstFailure(Tail(results))

-----------------------------------------------------------------------------
(* encoder.ts: encodeAV1.                                                  *)

(* Math.ceil(Math.log2(n)) for n >= 1.                                     *)
CeilLog2(n) == CHOOSE k \in 0 .. 30 : 2 ^ k >= n /\ (k = 0 \/ 2 ^ (k - 1) < n)

(* createSequenceHeader(width, height): new Uint8Array(buffer) keeps the   *)
(* low 8 bits of every number pushed.                                      *)
createSequenceHeader(width, height) ==
    LET widthBits == CeilLog2(width + 1)
        heightBits == CeilLog2(height + 1)
        widthBytes == writeLeb128(AsU32(width - 1)).bytes
        heightBytes == writeLeb128(AsU32(height - 1)).bytes
    IN <<24, 0, Or32(Shl32(widthBits - 1, 4), heightBits - 1) % 256>>
       \o widthBytes \o heightBytes

(* createSimpleFrame(data, width, height): a header byte and               *)
(* Math.min(100, width * height) bytes, for width, height >= 1.            *)
createSimpleFrame(width, height) ==
    LET count == IF width >= 100 \/ height >= 100 THEN 100
                 ELSE Min(100, width * height)
    IN [i \in 1 .. 1 + count |-> 0]

(* encodeAV1(data, width, height, options)                                 *)
encodeAV1(width, height) ==
    createOBU(1, createSequenceHeader(width, height), FALSE, 0, 0)
    \o createOBU(6, createSimpleFrame(width, height), FALSE, 0, 0)

-----------------------------------------------------------------------------
(* encoder.ts: the box builders; container/heif.ts: createFtyp.            *)

TypeHdlr == Text(<<"h", "d", "l", "r">>)
TypePitm == Text(<<"p", "i", "t", "m">>)
TypeIpma == Text(<<"i", "p", "m", "a">>)

createFtyp ==
    LET brands == <<Text(<<"a", "v", "i", "f">>), Text(<<"m", "i", "f", "1">>),
                    Text(<<"m", "i", "a", "f">>), Text(<<"M", "A", "1", "A">>)>>
        size == 8 + 4 + 4 + Len(brands) * 4
    IN ApplyWrites(NewArray(size),
           <<setUint32(0, size), PutChars(4, TypeFtyp),
             PutChars(8, Text(<<"a", "v", "i", "f">>)), setUint32(12, 0)>>
           \o [i \in 1 .. Len(brands) |-> PutChars(16 + 4 * (i - 1), brands[i])])

createHdlrBox ==
    ApplyWrites(NewArray(32),
        <<setUint32(0, 32), PutChars(4, TypeHdlr), setUint32(8, 0), setUint32(12, 0),
          PutChars(16, Text(<<"p", "i", "c", "t">>)),
          setUint32(20, 0), setUint32(24, 0), setUint32(28, 0)>>)

createPitmBox(primaryItemId) ==
    ApplyWrites(NewArray(14),
        <<setUint32(0, 14), PutChars(4, TypePitm), setUint32(8, 0),
          setUint16(12, primaryItemId)>>)

createIlocBox(itemId, dataSize) ==
    ApplyWrites(NewArray(28),
        <<setUint32(0, 28), PutChars(4, TypeIloc), setUint32(8, 0),
          PutByte(12, 68), PutByte(13, 0), setUint16(14, 1), setUint16(16, itemId),
          setUint16(18, 0), setUint16(20, 1), setUint32(22, 0),
          setUint32(26, dataSize)>>)

createInfeBox(itemId, itemType) ==
    ApplyWrites(NewArray(21),
        <<setUint32(0, 21), PutChars(4, TypeInfe), setUint32(8, 33554432),
          setUint16(12, itemId), setUint16(14, 0), PutChars(16, itemType),
          PutByte(20, 0)>>)

createIinfBox ==
    LET infe == createInfeBox(1, Text(<<"a", "v", "0", "1">>))
        size == 14 + Len(infe.bytes)
    IN IF infe.kind # "ok" THEN infe
       ELSE ApplyWrites(NewArray(size),
                <<setUint32(0, size), PutChars(4, TypeIinf), setUint32(8, 0),
                  setUint16(12, 1), setArray(infe.bytes, 14)>>)

createIspeBox(width, height) ==
    ApplyWrites(NewArray(20),
        <<setUint32(0, 20), PutChars(4, TypeIspe), setUint32(8, 0),
          setUint32(12, width), setUint32(16, height)>>)

createAv1CBox ==
    ApplyWrites(NewArray(12),
        <<setUint32(0, 12), PutChars(4, TypeAv1C),
          PutByte(8, 129), PutByte(9, 0), PutByte(10, 0), PutByte(11, 0)>>)

createIpmaBox ==
    ApplyWrites(NewArray(17),
        <<setUint32(0, 17), PutChars(4, TypeIpma), setUint32(8, 0), setUint32(12, 1),
          setUint16(16, 1)>>)

(* The ipco box of createIprpBox.                                          *)
IpcoBox(ispe, av1c) ==
    LET ipcoSize == 8 + Len(ispe.bytes) + Len(av1c.bytes)
    IN IF FirstFailure(<<ispe, av1c>>).kind # "ok" THEN FirstFailure(<<ispe, av1c>>)
       ELSE ApplyWrites(NewArray(ipcoSize),
                <<setUint32(0, ipcoSize), PutChars(4, TypeIpco),
                  setArray(ispe.bytes, 8), setArray(av1c.bytes, 8 + Len(ispe.bytes))>>)

createIprpBox(width, height) ==
    LET ipco == IpcoBox(createIspeBox(width, height), createAv1CBox)
        ipma == createIpmaBox
        size == 8 + Len(ipco.bytes) + Len(ipma.bytes)
    IN IF FirstFailure(<<ipco, ipma>>).kind # "ok" THEN FirstFailure(<<ipco, ipma>>)
       ELSE ApplyWrites(NewArray(size),
                <<setUint32(0, size), PutChars(4, TypeIprp),
                  setArray(ipco.bytes, 8), setArray(ipma.bytes, 8 + Len(ipco.bytes))>>)

(* The writes of createMetaBox for the children it built.                  *)
MetaWrites(children) ==
    LET metaSize == 12 + Len(Concat(children))
    IN ApplyWrites(NewArray(metaSize),
           <<setUint32(0, metaSize), PutChars(4, TypeMeta), setUint32(8, 0)>>
           \o [i \in 1 .. Len(children) |->
                  setArray(children[i], 12 + Len(Concat(SubSeq(children, 1, i - 1))))])

createMetaBox(width, height, dataSize) ==
    LET built == <<createHdlrBox, createPitmBox(1), createIlocBox(1, dataSize),
                   createIinfBox, createIprpBox(width, height)>>
    IN IF FirstFailure(built).kind # "ok" THEN FirstFailure(built)
       ELSE MetaWrites([i \in 1 .. Len(built) |-> built[i].bytes])

createMdatBox(data) ==
    ApplyWrites(NewArray(8 + Len(data)),
        <<setUint32(0, 8 + Len(data)), PutChars(4, TypeMdat), setArray(data, 8)>>)

createAvifContainer(av1Data, width, height) ==
    LET built == <<createFtyp, createMetaBox(width, height, Len(av1Data)),
                   createMdatBox(av1Data)>>
    IN IF FirstFailure(built).kind # "ok" THEN FirstFailure(built)
       ELSE [kind |-> "ok", bytes |-> built[1].bytes \o built[2].bytes \o built[3].bytes]

(* encode(imageData, options)                                              *)
encode(imageData) ==
    createAvifContainer(encodeAV1(imageData.width, imageData.height),
                        imageData.width, imageData.height)

-----------------------------------------------------------------------------
(* Encoder calls: encode on an image of a given width and height, and each *)
(* box builder with the arguments encode hands to it.                      *)

Dimensions == {1, 2, 3, 4, 16, 100, 255, 300}

BoxNames ==
    {"ftyp", "meta", "hdlr", "pitm", "iloc", "iinf", "infe", "iprp", "ipco", "ispe",
     "av1C", "ipma", "mdat"}

(* The box `name` as encode builds it for the image.                       *)
BuiltBox(name, imageData) ==
    LET width == imageData.width
        height == imageData.height
        av1Data == encodeAV1(width, height)
    IN CASE name = "ftyp" -> createFtyp
         [] name = "meta" -> createMetaBox(width, height, Len(av1Data))
         [] name = "hdlr" -> createHdlrBox
         [] name = "pitm" -> createPitmBox(1)
         [] name = "iloc" -> createIlocBox(1, Len(av1Data))
         [] name = "iinf" -> createIinfBox
         [] name = "infe" -> createInfeBox(1, Text(<<"a", "v", "0", "1">>))
         [] name = "iprp" -> createIprpBox(width, height)
         [] name = "ipco" -> IpcoBox(createIspeBox(width, height), createAv1CBox)
         [] name = "ispe" -> createIspeBox(width, height)
         [] name = "av1C" -> createAv1CBox
         [] name = "ipma" -> createIpmaBox
         [] name = "mdat" -> createMdatBox(av1Data)

EncInit ==
    /\ pc = "ready"
    /\ input \in [width : Dimensions, height : Dimensions]
    /\ output = NoValue

Encode ==
    /\ pc = "ready"
    /\ pc' = "encoded"
    /\ output' = encode(input)
    /\ UNCHANGED input

CreateBox ==
    /\ pc = "ready"
    /\ pc' = "built"
    /\ \E name \in BoxNames : output' = [name |-> name, box |-> BuiltBox(name, input)]
    /\ UNCHANGED input

EncNext == Encode \/ CreateBox

EncSpec == EncInit /\ [][EncNext]_vars

(* C15: for every image passed to encode, each box the builder emits       *)
(* starts with a 4-byte big-endian size equal to the number of bytes that  *)
(* box occupies, and every field the builder writes into a box lies inside *)
(* those bytes, so encode returns a byte buffer instead of failing.        *)
C15_BoxesFitAndEncodeReturns ==
    /\ pc = "built" =>
          /\ output.box.kind = "ok"
          /\ GetUint32(output.box.bytes, 0) = Len(output.box.bytes)
    /\ pc = "encoded" => output.kind = "ok"

(* C16: in the container built by encode, the iloc extent of item 1 is     *)
(* resolved to the position of the AV1 payload in mdat: getImageData on    *)
(* the output of encode and its parsed boxes, for item 1, returns exactly  *)
(* the AV1 bytes that were placed in mdat.                                 *)
C16_EncodedItemResolves ==
    pc = "encoded" =>
        /\ output.kind = "ok"
        /\ parseISOBMFF(output.bytes).kind = "ok"
        /\ getImageData(output.bytes, parseISOBMFF(output.bytes).boxes, 1)
              = [kind |-> "ok", bytes |-> encodeAV1(input.width, input.height)]

-----------------------------------------------------------------------------
(* Meta box calls: parseISOBMFF on a file whose meta box is laid out by    *)
(* the writes of createMetaBox around five child boxes of the builder's    *)
(* layouts, then findBox on the children of the meta box returned.         *)

(* An iloc box and an ipma box as the builder lays them out, in buffers    *)
(* that hold every field.                                                  *)
IlocBoxOf(extentOffset, dataSize) ==
    FormedBox("exact", TypeIloc,
              <<0, 0, 0, 0, 68, 0>> \o Uint16Bytes(1) \o Uint16Bytes(1) \o Uint16Bytes(0)
              \o Uint16Bytes(1) \o Uint32Bytes(extentOffset) \o Uint32Bytes(dataSize))

IpmaBoxOf(itemId) ==
    FormedBox("exact", TypeIpma, <<0, 0, 0, 0>> \o Uint32Bytes(1) \o Uint16Bytes(itemId))

IprpBoxOf(width, height) ==
    FormedBox("exact", TypeIprp,
              IpcoBox(createIspeBox(width, height), createAv1CBox).bytes \o IpmaBoxOf(1))

MetaFiles ==
    [ftyp : BOOLEAN, extentOffset : {0, 8}, dataSize : {1, 4, 8},
     width : {1, 300}, height : {1, 2}]

(* The child boxes of the meta box of f, in the builder's order.           *)
MetaChildren(f) ==
    <<createHdlrBox.bytes, createPitmBox(1).bytes, IlocBoxOf(f.extentOffset, f.dataSize),
      createIinfBox.bytes, IprpBoxOf(f.width, f.height)>>

MetaChildTypes == <<TypeHdlr, TypePitm, TypeIloc, TypeIinf, TypeIprp>>

MetaBuffer(f) ==
    (IF f.ftyp THEN createFtyp.bytes ELSE <<>>)
    \o MetaWrites(MetaChildren(f)).bytes
    \o createMdatBox(Filler(f.dataSize)).bytes

MetaInit ==
    /\ pc = "ready"
    /\ \E f \in MetaFiles : input = [file |-> f, buffer |-> MetaBuffer(f)]
    /\ output = NoValue

ParseMeta ==
    /\ pc = "ready"
    /\ pc' = "parsed"
    /\ output' = parseISOBMFF(input.buffer)
    /\ UNCHANGED input

FindInMeta ==
    /\ pc = "parsed"
    /\ output.kind = "ok"
    /\ pc' = "found"
    /\ \E i \in 2 .. 5 :
           LET metaBox == findBox(output.boxes, TypeMeta)
           IN output' = [type |-> MetaChildTypes[i],
                         child |-> IF metaBox.found
                                   THEN findBox(metaBox.box.children, MetaChildTypes[i])
                                   ELSE Undefined]
    /\ UNCHANGED input

MetaNext == ParseMeta \/ FindInMeta

MetaSpec == MetaInit /\ [][MetaNext]_vars

(* C18: for a meta box laid out as the builder writes it (8-byte header,   *)
(* 4-byte version/flags, then the child boxes), parseISOBMFF returns a     *)
(* meta box whose children are exactly those child boxes in order (hdlr,   *)
(* pitm, iloc, iinf, iprp), so that findBox on the children of meta finds  *)
(* iprp, iloc, iinf and pitm.                                              *)
C18_MetaChildrenParsed ==
    /\ pc = "parsed" =>
          /\ output.kind = "ok"
          /\ LET metaBox == findBox(output.boxes, TypeMeta)
                 written == MetaChildren(input.file)
             IN /\ metaBox.found
                /\ Len(metaBox.box.children) = 5
                /\ \A i \in 1 .. 5 :
                      /\ metaBox.box.children[i].type = MetaChildTypes[i]
                      /\ metaBox.box.children[i].size = Len(written[i])
                      /\ metaBox.box.children[i].data = SubSeq(written[i], 9, Len(written[i]))
    /\ pc = "found" => output.child.found


-----------------------------------------------------------------------------
(* av1/decoder.ts: decodeAV1.                                              *)

(* obus.find(obu => obu.type === type): the index of the first OBU of the  *)
(* type, 0 when there is none.                                             *)
FindOBU(obus, type) ==
    IF \E i \in 1 .. Len(obus) : obus[i].type = type
    THEN CHOOSE i \in 1 .. Len(obus) :
             /\ obus[i].type = type
             /\ \A j \in 1 .. i - 1 : obus[j].type # type
    ELSE 0

(* decodeFrame(data, seqHeader): the gray placeholder, 4 bytes a pixel.    *)
decodeFrame(data, seqHeader) ==
    [i \in 1 .. 4 * seqHeader.maxFrameWidth * seqHeader.maxFrameHeight |->
        IF i % 4 = 0 THEN 255 ELSE 128]

(* parseSequenceHeader(seqHeaderOBU.data), the payload taken once.         *)
SequenceHeaderOf(obus) ==
    CHOOSE seqHeader \in {parseSequenceHeader(payload) :
                              payload \in {obus[FindOBU(obus, 1)].data}} : TRUE

(* The image decodeAV1 returns for a frame payload and a sequence header.  *)
DecodedImage(frame, seqHeader) ==
    [kind |-> "ok",
     data |-> decodeFrame(frame, seqHeader),
     width |-> seqHeader.maxFrameWidth,
     height |-> seqHeader.maxFrameHeight,
     hasAlpha |-> FALSE,
     bitDepth |-> seqHeader.bitDepth]

(* decodeAV1(data) once parseOBUs(data) has returned `parsed`.             *)
DecodeParsed(parsed) ==
    IF parsed.kind # "ok" THEN [kind |-> parsed.kind]
    ELSE IF FindOBU(parsed.obus, 1) = 0
    THEN [kind |-> "throws", error |-> "No sequence header found"]
    ELSE IF FindOBU(parsed.obus, 6) = 0
    THEN [kind |-> "throws", error |-> "No frame data found"]
    ELSE CHOOSE image \in {DecodedImage(parsed.obus[FindOBU(parsed.obus, 6)].data,
                                        seqHeader) :
                               seqHeader \in {SequenceHeaderOf(parsed.obus)}} : TRUE

(* decodeAV1(data): the OBUs are parsed once, then searched.               *)
decodeAV1(data) ==
    CHOOSE result \in {DecodeParsed(parsed) : parsed \in {parseOBUs(data)}} : TRUE

-----------------------------------------------------------------------------
(* Sequence header round trips: createSequenceHeader for a width and a     *)
(* height, then parseSequenceHeader on the bytes written; and decodeAV1 on *)
(* the bitstream encodeAV1 returns for them.                               *)

EncodedSizes ==
    {1, 2, 3, 4, 7, 8, 16, 100, 128, 255, 256, 1080, 1920, 4096, 65535, 65536}

MirrorInit ==
    /\ pc = "ready"
    /\ input \in [width : EncodedSizes, height : EncodedSizes]
    /\ output = NoValue

WriteSequenceHeader ==
    /\ pc = "ready"
    /\ pc' = "written"
    /\ output' = [header |-> createSequenceHeader(input.width, input.height)]
    /\ UNCHANGED input

ReadSequenceHeader ==
    /\ pc = "written"
    /\ pc' = "mirrored"
    /\ output' = [header |-> output.header,
                  seqHeader |-> parseSequenceHeader(output.header)]
    /\ UNCHANGED input

DecodeEncoded ==
    /\ pc = "ready"
    /\ pc' = "decoded"
    /\ \E bitstream \in {encodeAV1(input.width, input.height)} :
           output' = decodeAV1(bitstream)
    /\ UNCHANGED input

MirrorNext == WriteSequenceHeader \/ ReadSequenceHeader \/ DecodeEncoded

MirrorSpec == MirrorInit /\ [][MirrorNext]_vars

(* C23: the sequence header written by the encoder is the mirror of what   *)
(* the decoder reads: for every width and height in [1, 65536],            *)
(* parseSequenceHeader(createSequenceHeader(width, height)) returns        *)
(* reducedStillPictureHeader = true, maxFrameWidth = width and             *)
(* maxFrameHeight = height, so decodeAV1 of the AV1 bitstream of the       *)
(* encoder reports the dimensions of the encoded image.                    *)
C23_SequenceHeaderMirror ==
    /\ pc = "mirrored" =>
          /\ output.seqHeader.reducedStillPictureHeader
          /\ output.seqHeader.maxFrameWidth = input.width
          /\ output.seqHeader.maxFrameHeight = input.height
    /\ pc = "decoded" =>
          /\ output.kind = "ok"
          /\ output.width = input.width
          /\ output.height = input.height
=============================================================================
